---- MODULE Spec2Model ----
(***************************************************************************)
(* A model of the attio-mcp server: the Attio REST client                  *)
(* (attio_mcp/attio_client.py) and the MCP tools that wrap it              *)
(* (attio_mcp/server.py).                                                  *)
(*                                                                         *)
(* Python values are tagged records: None is [t |-> "none"], a str is      *)
(* [t |-> "str", v |-> <<characters>>], an int is [t |-> "int", i |-> n],  *)
(* a float is [t |-> "float", n |-> numerator, d |-> denominator].  A dict *)
(* is a function from its keys, a list is a sequence.  A str is a sequence *)
(* of one-character strings so that lower(), strip(), "in" and the date    *)
(* parser are computed character by character.                             *)
(***************************************************************************)
EXTENDS Integers, Sequences, FiniteSets, TLC

(***************************************************************************)
(* Bounds of the model.                                                    *)
(***************************************************************************)
MaxMembers == 3          \* longest workspace-member collection the remote returns
MaxLimit == 3            \* largest small caller-supplied limit
MaxTasks == 3            \* longest page of tasks the remote returns
MaxTokenLen == 2         \* longest bearer token
MaxInvocations == 2      \* tool invocations in flight at once

(***************************************************************************)
(* Python values.                                                          *)
(***************************************************************************)
None == [t |-> "none"]
PyStr(s) == [t |-> "str", v |-> s]
PyInt(n) == [t |-> "int", i |-> n]
PyFloat(num, den) == [t |-> "float", n |-> num, d |-> den]

\* a dict is a function from its keys; a tagged value has the field t
IsNone(x) == "t" \in DOMAIN x /\ x.t = "none"
IsStr(x) == "t" \in DOMAIN x /\ x.t = "str"

\* bool(x) for an optional str: None and "" are falsy
Truthy(x) == IsStr(x) /\ Len(x.v) > 0

Min(a, b) == IF a <= b THEN a ELSE b

\* seq[:n] for n >= 0
Take(seq, n) == SubSeq(seq, 1, Min(n, Len(seq)))

(***************************************************************************)
(* str methods.                                                            *)
(***************************************************************************)
UpperChars == <<"A", "B", "C", "E", "L", "N", "O", "X">>
LowerChars == <<"a", "b", "c", "e", "l", "n", "o", "x">>

\* one character of str.lower()
LowerChar(c) ==
    IF \E i \in 1..Len(UpperChars) : UpperChars[i] = c
    THEN LowerChars[CHOOSE i \in 1..Len(UpperChars) : UpperChars[i] = c]
    ELSE c

\* str.lower()
lower(s) == [i \in 1..Len(s) |-> LowerChar(s[i])]

\* str.strip(): drop leading and trailing blanks
strip(s) ==
    LET nonblank == {i \in 1..Len(s) : s[i] # " "}
        first == CHOOSE i \in nonblank : \A j \in nonblank : i <= j
        last == CHOOSE i \in nonblank : \A j \in nonblank : i >= j
    IN  IF nonblank = {} THEN <<>> ELSE SubSeq(s, first, last)

\* needle in haystack
Contains(needle, haystack) ==
    \E i \in 0..(Len(haystack) - Len(needle)) :
        SubSeq(haystack, i + 1, i + Len(needle)) = needle

\* str(x) for a dict value: str(None) is "None"
str(x) ==
    CASE x.t = "str" -> x.v
      [] x.t = "none" -> <<"N", "o", "n", "e">>
      [] OTHER -> <<>>

\* dict.get(key, default)
Get(dict, key, default) == IF key \in DOMAIN dict THEN dict[key] ELSE default

(***************************************************************************)
(* datetime.date: fromisoformat, comparison, isoformat.                    *)
(***************************************************************************)
DigitChars == <<"0", "1", "2", "3", "4", "5", "6", "7", "8", "9">>

IsDigit(c) == \E i \in 1..Len(DigitChars) : DigitChars[i] = c
DigitVal(c) == (CHOOSE i \in 1..Len(DigitChars) : DigitChars[i] = c) - 1

AllDigits(s) == \A i \in 1..Len(s) : IsDigit(s[i])

RECURSIVE Number(_)
Number(s) ==
    IF s = <<>> THEN 0
    ELSE 10 * Number(SubSeq(s, 1, Len(s) - 1)) + DigitVal(s[Len(s)])

IsLeap(y) == (y % 4 = 0 /\ y % 100 # 0) \/ y % 400 = 0

DaysInMonth(y, m) ==
    CASE m \in {4, 6, 9, 11} -> 30
      [] m = 2 -> IF IsLeap(y) THEN 29 ELSE 28
      [] OTHER -> 31

ValidDate(y, m, d) ==
    /\ y >= 1
    /\ m \in 1..12
    /\ d >= 1
    /\ d <= DaysInMonth(y, m)

\* The fields of an ISO date string, or <<>> when the string has neither the
\* extended form YYYY-MM-DD nor (from Python 3.11 on) the basic form YYYYMMDD.
DateFields(s, basic) ==
    IF /\ Len(s) = 10
       /\ s[5] = "-"
       /\ s[8] = "-"
       /\ AllDigits(SubSeq(s, 1, 4) \o SubSeq(s, 6, 7) \o SubSeq(s, 9, 10))
    THEN <<Number(SubSeq(s, 1, 4)), Number(SubSeq(s, 6, 7)), Number(SubSeq(s, 9, 10))>>
    ELSE IF basic /\ Len(s) = 8 /\ AllDigits(s)
    THEN <<Number(SubSeq(s, 1, 4)), Number(SubSeq(s, 5, 6)), Number(SubSeq(s, 7, 8))>>
    ELSE <<>>

\* a parser that checks the form of the string but not the calendar
fromisoformat_any_day(s, basic) ==
    LET f == DateFields(s, basic)
    IN  IF f # <<>>
        THEN [ok |-> TRUE, date |-> f]
        ELSE [ok |-> FALSE,
              exc |-> [type |-> "ValueError", msg |-> <<"Invalid isoformat string: ", s>>]]

\* date.fromisoformat(s): a date <<y, m, d>>, or the ValueError it raises
fromisoformat(s, basic) ==
    LET f == DateFields(s, basic)
    IN  IF f # <<>> /\ ValidDate(f[1], f[2], f[3])
        THEN [ok |-> TRUE, date |-> f]
        ELSE [ok |-> FALSE,
              exc |-> [type |-> "ValueError", msg |-> <<"Invalid isoformat string: ", s>>]]

\* a comparison written the wrong way round
DateAfter_reversed(a, b) ==
    \/ a[1] < b[1]
    \/ a[1] = b[1] /\ a[2] < b[2]
    \/ a[1] = b[1] /\ a[2] = b[2] /\ a[3] < b[3]

\* a comparison that also holds for equal dates
DateAfter_or_equal(a, b) ==
    \/ a[1] > b[1]
    \/ a[1] = b[1] /\ a[2] > b[2]
    \/ a[1] = b[1] /\ a[2] = b[2] /\ a[3] >= b[3]

\* a > b on dates
DateAfter(a, b) ==
    \/ a[1] > b[1]
    \/ a[1] = b[1] /\ a[2] > b[2]
    \/ a[1] = b[1] /\ a[2] = b[2] /\ a[3] > b[3]

\* n written with the given number of digits, zero padded
RECURSIVE Pad(_, _)
Pad(n, width) ==
    IF width = 0 THEN <<>>
    ELSE Pad(n \div 10, width - 1) \o <<DigitChars[(n % 10) + 1]>>

\* date.isoformat(): YYYY-MM-DD
isoformat(d) == Pad(d[1], 4) \o <<"-">> \o Pad(d[2], 2) \o <<"-">> \o Pad(d[3], 2)

(***************************************************************************)
(* AttioClient._build_search_payload                                       *)
(***************************************************************************)
\* bool(f) for an optional dict: None and {} are falsy
DictTruthy(f) == ~IsNone(f) /\ DOMAIN f # {}

\* [f for f in filters if f]
RECURSIVE ActiveFilters(_)
ActiveFilters(filters) ==
    IF filters = <<>> THEN <<>>
    ELSE (IF DictTruthy(Head(filters)) THEN <<Head(filters)>> ELSE <<>>)
         \o ActiveFilters(Tail(filters))

\* a builder that wraps even a single predicate in a conjunction
_build_search_payload_always_and(filters, limit) ==
    LET active_filters == ActiveFilters(filters)
        payload == "limit" :> limit
    IN  IF Len(active_filters) > 0
        THEN payload @@ ("filter" :> ("$and" :> active_filters))
        ELSE payload

_build_search_payload(filters, limit) ==
    LET active_filters == ActiveFilters(filters)
        payload == "limit" :> limit
    IN  IF Len(active_filters) > 0
        THEN IF Len(active_filters) > 1
             THEN payload @@ ("filter" :> ("$and" :> active_filters))
             ELSE payload @@ ("filter" :> active_filters[1])
        ELSE payload

(***************************************************************************)
(* Outcomes of a call: a returned value or a raised exception.             *)
(***************************************************************************)
Return(value) == [kind |-> "return", value |-> value]
Raise(exc) == [kind |-> "raise", exc |-> exc]
Pending == [kind |-> "pending"]

Exception(type, msg) == [type |-> type, msg |-> msg]

\* the answer of the remote service to one request: an HTTP response with a
\* status, a raw body and (when the body is JSON) its decoded value, or a
\* transport failure raised by httpx instead of a response
HttpResponse(status, text, json) ==
    [kind |-> "http", status |-> status, text |-> text, json |-> json]
TransportFailure(type) ==
    [kind |-> "transport", exc |-> Exception(type, <<"transport failure">>)]
Undecodable == [t |-> "undecodable"]

\* httpx.Response.is_success
is_success(status) == status >= 200 /\ status <= 299

\* response.json(): the decoded body, or the JSONDecodeError it raises
json(resp) ==
    IF "t" \in DOMAIN resp.json /\ resp.json.t = "undecodable"
    THEN Raise(Exception("JSONDecodeError", <<"Expecting value">>))
    ELSE Return(resp.json)

\* an API error that leaves the response body out
ApiError_no_body(resp) ==
    Exception("Exception", <<"Attio API error: ", ToString(resp.status)>>)

\* Exception(f"Attio API error: {e.response.status_code} - {e.response.text}")
ApiError(resp) ==
    Exception("Exception", <<"Attio API error: ", ToString(resp.status), " - ", resp.text>>)

(***************************************************************************)
(* AttioClient.search_companies                                            *)
(***************************************************************************)
\* a search that sends the two reminder bounds as two separate predicates
search_companies_request_split_range(name, domain, owner_id, reminder_start, reminder_end, limit, basic) ==
    LET start == IF IsNone(reminder_start) THEN [ok |-> TRUE, date |-> <<>>]
                 ELSE fromisoformat(reminder_start.v, basic)
        end == IF IsNone(reminder_end) THEN [ok |-> TRUE, date |-> <<>>]
               ELSE fromisoformat(reminder_end.v, basic)
        name_filter == IF Truthy(name) THEN "name" :> ("$contains" :> name.v) ELSE None
        domain_filter ==
            IF Truthy(domain) THEN "domains" :> ("domain" :> ("$eq" :> domain.v)) ELSE None
        owner_filter ==
            IF Truthy(owner_id)
            THEN "owner" :> [referenced_actor_type |-> "workspace-member",
                             referenced_actor_id |-> owner_id.v]
            ELSE None
        start_filter == IF start.date # <<>>
                        THEN "reminder" :> ("$gte" :> isoformat(start.date)) ELSE None
        end_filter == IF end.date # <<>>
                      THEN "reminder" :> ("$lte" :> isoformat(end.date)) ELSE None
    IN  IF ~start.ok THEN Raise(start.exc)
        ELSE IF ~end.ok THEN Raise(end.exc)
        ELSE IF start.date # <<>> /\ end.date # <<>> /\ DateAfter(start.date, end.date)
        THEN Raise(Exception("ValueError", <<"reminder_start must be <= reminder_end">>))
        ELSE Return([method |-> "POST",
                     url |-> <<"/objects/companies/records/query">>,
                     json |-> _build_search_payload(
                         <<name_filter, domain_filter, owner_filter, start_filter,
                           end_filter>>,
                         limit)])

\* lines 126-172: validation and payload; the request to issue, or the
\* exception raised before any request
search_companies_request(name, domain, owner_id, reminder_start, reminder_end, limit, basic) ==
    LET start == IF IsNone(reminder_start) THEN [ok |-> TRUE, date |-> <<>>]
                 ELSE fromisoformat(reminder_start.v, basic)
        end == IF IsNone(reminder_end) THEN [ok |-> TRUE, date |-> <<>>]
               ELSE fromisoformat(reminder_end.v, basic)
        reminder_start_date == start.date
        reminder_end_date == end.date
        name_filter == IF Truthy(name) THEN "name" :> ("$contains" :> name.v) ELSE None
        domain_filter ==
            IF Truthy(domain) THEN "domains" :> ("domain" :> ("$eq" :> domain.v)) ELSE None
        owner_filter ==
            IF Truthy(owner_id)
            THEN "owner" :> [referenced_actor_type |-> "workspace-member",
                             referenced_actor_id |-> owner_id.v]
            ELSE None
        gte == IF reminder_start_date # <<>>
               THEN "$gte" :> isoformat(reminder_start_date) ELSE <<>>
        lte == IF reminder_end_date # <<>>
               THEN "$lte" :> isoformat(reminder_end_date) ELSE <<>>
        reminder_filter ==
            IF reminder_start_date # <<>> \/ reminder_end_date # <<>>
            THEN "reminder" :> (gte @@ lte)
            ELSE None
    IN  IF ~start.ok THEN Raise(start.exc)
        ELSE IF ~end.ok THEN Raise(end.exc)
        ELSE IF /\ reminder_start_date # <<>>
                /\ reminder_end_date # <<>>
                /\ DateAfter(reminder_start_date, reminder_end_date)
        THEN Raise(Exception("ValueError", <<"reminder_start must be <= reminder_end">>))
        ELSE Return([method |-> "POST",
                     url |-> <<"/objects/companies/records/query">>,
                     json |-> _build_search_payload(
                         <<name_filter, domain_filter, owner_filter, reminder_filter>>,
                         limit)])

\* a handler that turns every failure into the generic API error
search_companies_result_wraps_all(resp) ==
    IF resp.kind = "transport"
    THEN Raise(Exception("Exception", <<"Attio API error: ">> \o resp.exc.msg))
    ELSE IF ~is_success(resp.status) THEN Raise(ApiError(resp))
    ELSE IF json(resp).kind = "raise"
    THEN Raise(Exception("Exception", <<"Attio API error: ">> \o json(resp).exc.msg))
    ELSE json(resp)

\* lines 174-189: what the call makes of the remote's answer
search_companies_result(resp) ==
    IF resp.kind = "transport" THEN Raise(resp.exc)
    ELSE IF ~is_success(resp.status) THEN Raise(ApiError(resp))
    ELSE json(resp)

(***************************************************************************)
(* AttioClient: the other operations.  Each issues one request; the        *)
(* _result operator is what the call makes of the remote's answer.         *)
(***************************************************************************)
\* _get_notes, lines 77-81
_get_notes_request(parent_object, parent_record_id) ==
    [method |-> "GET",
     url |-> <<"/notes">>,
     params |-> [parent_object |-> parent_object, parent_record_id |-> parent_record_id]]

\* a notes lookup that treats a 404 like any other error status
_get_notes_result_no_404(resp) ==
    IF resp.kind = "transport" THEN Raise(resp.exc)
    ELSE IF ~is_success(resp.status) THEN Raise(ApiError(resp))
    ELSE json(resp)

\* _get_notes, lines 82-101: a 404 is an empty collection
_get_notes_result(resp) ==
    IF resp.kind = "transport" THEN Raise(resp.exc)
    ELSE IF ~is_success(resp.status)
         THEN IF resp.status = 404
              THEN Return("data" :> <<>>)
              ELSE Raise(ApiError(resp))
    ELSE json(resp)

get_company_notes_request(company_id) == _get_notes_request("companies", company_id)
get_person_notes_request(person_id) == _get_notes_request("people", person_id)

get_company_details_request(company_id) ==
    [method |-> "GET", url |-> <<"/objects/companies/records/", company_id>>]

\* get_company_details, lines 206-222
get_company_details_result(company_id, resp) ==
    IF resp.kind = "transport" THEN Raise(resp.exc)
    ELSE IF ~is_success(resp.status)
         THEN IF resp.status = 404
              THEN Raise(Exception("Exception", <<"Company not found: ", company_id>>))
              ELSE Raise(ApiError(resp))
    ELSE json(resp)

get_person_details_request(person_id) ==
    [method |-> "GET", url |-> <<"/objects/people/records/", person_id>>]

\* a person lookup without its own 404 case
get_person_details_result_no_404(person_id, resp) ==
    IF resp.kind = "transport" THEN Raise(resp.exc)
    ELSE IF ~is_success(resp.status) THEN Raise(ApiError(resp))
    ELSE json(resp)

\* get_person_details, lines 287-303
get_person_details_result(person_id, resp) ==
    IF resp.kind = "transport" THEN Raise(resp.exc)
    ELSE IF ~is_success(resp.status)
         THEN IF resp.status = 404
              THEN Raise(Exception("Exception", <<"Person not found: ", person_id>>))
              ELSE Raise(ApiError(resp))
    ELSE json(resp)

get_workspace_member_request(member_id) ==
    [method |-> "GET", url |-> <<"/workspace_members/", member_id>>]

\* get_workspace_member, lines 333-349
get_workspace_member_result(member_id, resp) ==
    IF resp.kind = "transport" THEN Raise(resp.exc)
    ELSE IF ~is_success(resp.status)
         THEN IF resp.status = 404
              THEN Raise(Exception("Exception", <<"Workspace member not found: ", member_id>>))
              ELSE Raise(ApiError(resp))
    ELSE json(resp)

\* a search that passes the email predicate before the name predicate
search_people_request_email_first(query, email, limit) ==
    LET name_filter == IF Truthy(query) THEN "name" :> ("$contains" :> query.v) ELSE None
        email_filter ==
            IF Truthy(email)
            THEN "email_addresses" :> ("email_address" :> ("$eq" :> email.v))
            ELSE None
    IN  [method |-> "POST",
         url |-> <<"/objects/people/records/query">>,
         json |-> _build_search_payload(<<email_filter, name_filter>>, limit)]

\* search_people, lines 252-257
search_people_request(query, email, limit) ==
    LET name_filter == IF Truthy(query) THEN "name" :> ("$contains" :> query.v) ELSE None
        email_filter ==
            IF Truthy(email)
            THEN "email_addresses" :> ("email_address" :> ("$eq" :> email.v))
            ELSE None
    IN  [method |-> "POST",
         url |-> <<"/objects/people/records/query">>,
         json |-> _build_search_payload(<<name_filter, email_filter>>, limit)]

\* a search that cuts the last record off the batch it returns
search_people_result_truncated(resp) ==
    IF resp.kind = "transport" THEN Raise(resp.exc)
    ELSE IF ~is_success(resp.status) THEN Raise(ApiError(resp))
    ELSE IF json(resp).kind = "raise" THEN json(resp)
    ELSE LET data == Get(json(resp).value, "data", <<>>)
         IN  Return("data" :> SubSeq(data, 1, Len(data) - 1))

\* search_people, lines 258-271
search_people_result(resp) ==
    IF resp.kind = "transport" THEN Raise(resp.exc)
    ELSE IF ~is_success(resp.status) THEN Raise(ApiError(resp))
    ELSE json(resp)

\* AttioClient.list_workspace_members, line 361
list_workspace_members_request == [method |-> "GET", url |-> <<"/workspace_members">>]

\* a listing that answers a 404 with an empty collection, as the notes do
list_workspace_members_result_404_empty(resp) ==
    IF resp.kind = "transport" THEN Raise(resp.exc)
    ELSE IF ~is_success(resp.status)
         THEN IF resp.status = 404
              THEN Return("data" :> <<>>)
              ELSE Raise(ApiError(resp))
    ELSE json(resp)

\* AttioClient.list_workspace_members, lines 362-376
list_workspace_members_result(resp) ==
    IF resp.kind = "transport" THEN Raise(resp.exc)
    ELSE IF ~is_success(resp.status) THEN Raise(ApiError(resp))
    ELSE json(resp)

(***************************************************************************)
(* AttioClient.list_tasks.  The operation is exercised by                  *)
(* tests/test_list_tasks.py but its body is not in attio_client.py; it is  *)
(* written here from the design document (4.2 listTasks, 4.3 task deadline *)
(* filtering, 3 date-range invariant) and from what the tests call and     *)
(* assert.                                                                 *)
(***************************************************************************)
\* the fixed page requested when a deadline bound is given
TaskPageLimit == 500

\* a deadline bound as a date, or <<>> for a bound that is not given
DeadlineBound(bound, basic) ==
    IF IsNone(bound) THEN [ok |-> TRUE, date |-> <<>>] ELSE fromisoformat(bound.v, basic)

\* a > b or a = b on dates
DateNotBefore(a, b) == ~DateAfter(b, a)

\* the day of a task's deadline_at timestamp ("2024-02-10T10:00:00Z"), or
\* <<>> for a task whose deadline is null or missing
DeadlineDay(task) ==
    LET deadline_at == Get(task, "deadline_at", None)
    IN  IF IsNone(deadline_at) THEN <<>>
        ELSE fromisoformat(SubSeq(deadline_at.v, 1, 10), FALSE).date

\* the task has a deadline and it lies within the given inclusive bounds
InDeadlineRange(task, start_date, end_date) ==
    LET day == DeadlineDay(task)
    IN  /\ day # <<>>
        /\ start_date # <<>> => DateNotBefore(day, start_date)
        /\ end_date # <<>> => DateNotBefore(end_date, day)

RECURSIVE FilterTasks(_, _, _)
FilterTasks(tasks, start_date, end_date) ==
    IF tasks = <<>> THEN <<>>
    ELSE (IF InDeadlineRange(Head(tasks), start_date, end_date)
          THEN <<Head(tasks)>> ELSE <<>>)
         \o FilterTasks(Tail(tasks), start_date, end_date)

\* the assignee parameter, sent only when an assignee is given
AssigneeParam(assignee) == IF Truthy(assignee) THEN "assignee" :> assignee.v ELSE <<>>

\* a request that always passes the caller's limit on
list_tasks_request_callers_limit(assignee, deadline_start, deadline_end, limit, basic) ==
    LET start == DeadlineBound(deadline_start, basic)
        end == DeadlineBound(deadline_end, basic)
    IN  IF ~start.ok THEN Raise(start.exc)
        ELSE IF ~end.ok THEN Raise(end.exc)
        ELSE IF start.date # <<>> /\ end.date # <<>> /\ DateAfter(start.date, end.date)
        THEN Raise(Exception("ValueError", <<"deadline_start must be <= deadline_end">>))
        ELSE Return([method |-> "GET", url |-> <<"/tasks">>,
                     params |-> AssigneeParam(assignee) @@ ("limit" :> limit)])

\* a request that is built without comparing the two bounds
list_tasks_request_no_range_check(assignee, deadline_start, deadline_end, limit, basic) ==
    LET start == DeadlineBound(deadline_start, basic)
        end == DeadlineBound(deadline_end, basic)
    IN  IF ~start.ok THEN Raise(start.exc)
        ELSE IF ~end.ok THEN Raise(end.exc)
        ELSE IF start.date # <<>> \/ end.date # <<>>
        THEN Return([method |-> "GET", url |-> <<"/tasks">>,
                     params |-> AssigneeParam(assignee)
                                @@ ("limit" :> TaskPageLimit) @@ ("offset" :> 0)])
        ELSE Return([method |-> "GET", url |-> <<"/tasks">>,
                     params |-> AssigneeParam(assignee) @@ ("limit" :> limit)])

\* validation of the deadline range, then the request: GET /tasks with the
\* assignee and the caller's limit, or with the fixed page when a deadline
\* bound is given
list_tasks_request(assignee, deadline_start, deadline_end, limit, basic) ==
    LET start == DeadlineBound(deadline_start, basic)
        end == DeadlineBound(deadline_end, basic)
    IN  IF ~start.ok THEN Raise(start.exc)
        ELSE IF ~end.ok THEN Raise(end.exc)
        ELSE IF start.date # <<>> /\ end.date # <<>> /\ DateAfter(start.date, end.date)
        THEN Raise(Exception("ValueError", <<"deadline_start must be <= deadline_end">>))
        ELSE IF start.date # <<>> \/ end.date # <<>>
        THEN Return([method |-> "GET", url |-> <<"/tasks">>,
                     params |-> AssigneeParam(assignee)
                                @@ ("limit" :> TaskPageLimit) @@ ("offset" :> 0)])
        ELSE Return([method |-> "GET", url |-> <<"/tasks">>,
                     params |-> AssigneeParam(assignee) @@ ("limit" :> limit)])

\* a result that truncates to the caller's limit before it filters
list_tasks_result_truncate_first(deadline_start, deadline_end, limit, basic, resp) ==
    LET start_date == DeadlineBound(deadline_start, basic).date
        end_date == DeadlineBound(deadline_end, basic).date
        body == json(resp)
    IN  IF resp.kind = "transport" THEN Raise(resp.exc)
        ELSE IF ~is_success(resp.status) THEN Raise(ApiError(resp))
        ELSE IF body.kind = "raise" THEN body
        ELSE IF start_date = <<>> /\ end_date = <<>> THEN body
        ELSE Return("data" :> FilterTasks(Take(Get(body.value, "data", <<>>), limit),
                                          start_date, end_date))

\* what the call makes of the remote's answer: the response unchanged when
\* no deadline bound is given, else the tasks within the bounds, truncated
\* to the caller's limit
list_tasks_result(deadline_start, deadline_end, limit, basic, resp) ==
    LET start_date == DeadlineBound(deadline_start, basic).date
        end_date == DeadlineBound(deadline_end, basic).date
        body == json(resp)
    IN  IF resp.kind = "transport" THEN Raise(resp.exc)
        ELSE IF ~is_success(resp.status) THEN Raise(ApiError(resp))
        ELSE IF body.kind = "raise" THEN body
        ELSE IF start_date = <<>> /\ end_date = <<>> THEN body
        ELSE Return("data" :> Take(FilterTasks(Get(body.value, "data", <<>>),
                                               start_date, end_date), limit))

(***************************************************************************)
(* server.py: the MCP tools.  A tool's text is a record whose head is how  *)
(* the text starts: f"Error: {str(e)}" starts with "Error: " and carries   *)
(* the exception's message; json.dumps of a dict starts with "{" and       *)
(* carries the value it serialises.                                        *)
(***************************************************************************)
\* f"Error: {str(e)}"
ErrorText(exc) == [head |-> "Error: ", msg |-> exc.msg]

\* json.dumps(value, indent=2)
json_dumps(value) == [head |-> "{", json |-> value]

\* try: result = await attio_client.<operation>(...); return json.dumps(result)
\* except Exception as e: return f"Error: {str(e)}"
tool_search_companies(client_outcome) ==
    IF client_outcome.kind = "raise"
    THEN Return(ErrorText(client_outcome.exc))
    ELSE Return(json_dumps(client_outcome.value))

tool_get_company_details(client_outcome) ==
    IF client_outcome.kind = "raise"
    THEN Return(ErrorText(client_outcome.exc))
    ELSE Return(json_dumps(client_outcome.value))

tool_get_company_notes(client_outcome) ==
    IF client_outcome.kind = "raise"
    THEN Return(ErrorText(client_outcome.exc))
    ELSE Return(json_dumps(client_outcome.value))

tool_search_people(client_outcome) ==
    IF client_outcome.kind = "raise"
    THEN Return(ErrorText(client_outcome.exc))
    ELSE Return(json_dumps(client_outcome.value))

\* a tool that reports a failure without the exception's message
tool_get_person_details_fixed_text(client_outcome) ==
    IF client_outcome.kind = "raise"
    THEN Return([head |-> "Error: ", msg |-> <<"request failed">>])
    ELSE Return(json_dumps(client_outcome.value))

tool_get_person_details(client_outcome) ==
    IF client_outcome.kind = "raise"
    THEN Return(ErrorText(client_outcome.exc))
    ELSE Return(json_dumps(client_outcome.value))

tool_get_person_notes(client_outcome) ==
    IF client_outcome.kind = "raise"
    THEN Return(ErrorText(client_outcome.exc))
    ELSE Return(json_dumps(client_outcome.value))

\* a tool without the except clause: the client's exception propagates
tool_get_workspace_member_no_except(client_outcome) ==
    IF client_outcome.kind = "raise"
    THEN client_outcome
    ELSE Return(json_dumps(client_outcome.value))

tool_get_workspace_member(client_outcome) ==
    IF client_outcome.kind = "raise"
    THEN Return(ErrorText(client_outcome.exc))
    ELSE Return(json_dumps(client_outcome.value))

\* search_workspace_member_by_email, lines 189-192: the loop over the members
\* from position i on.  None has no lower(): a null email_address raises.
RECURSIVE FindByEmail(_, _, _)
FindByEmail(members, i, email) ==
    IF i > Len(members)
    THEN Return([head |-> "{",
                 json |-> "error" :> <<"No workspace member found with email: ", email>>])
    ELSE LET address == Get(members[i], "email_address", PyStr(<<>>))
         IN  IF ~IsStr(address)
             THEN Raise(Exception("AttributeError",
                                  <<"'NoneType' object has no attribute 'lower'">>))
             ELSE IF lower(address.v) = lower(email)
             THEN Return(json_dumps("data" :> members[i]))
             ELSE FindByEmail(members, i + 1, email)

\* search_workspace_member_by_email, lines 186-195
tool_search_workspace_member_by_email(email, client_outcome) ==
    IF client_outcome.kind = "raise"
    THEN Return(ErrorText(client_outcome.exc))
    ELSE LET members == Get(client_outcome.value, "data", <<>>)
             found == FindByEmail(members, 1, email)
         IN  IF found.kind = "raise" THEN Return(ErrorText(found.exc)) ELSE found

\* list_workspace_members.matches, lines 213-223
matches(member, needle) ==
    LET first == strip(str(Get(member, "first_name", PyStr(<<>>))))
        last == strip(str(Get(member, "last_name", PyStr(<<>>))))
        email == strip(str(Get(member, "email_address", PyStr(<<>>))))
        full_name == strip(first \o <<" ">> \o last)
    IN  \/ Contains(needle, lower(first))
        \/ Contains(needle, lower(last))
        \/ Contains(needle, lower(full_name))
        \/ Contains(needle, lower(email))

\* [m for m in members if matches(m)]
RECURSIVE FilterMembers(_, _)
FilterMembers(members, needle) ==
    IF members = <<>> THEN <<>>
    ELSE (IF matches(Head(members), needle) THEN <<Head(members)>> ELSE <<>>)
         \o FilterMembers(Tail(members), needle)

\* int(s) for a str: an optional sign and decimal digits, else ValueError
IntOfStr(s) ==
    IF Len(s) > 0 /\ AllDigits(s) THEN [ok |-> TRUE, v |-> Number(s)]
    ELSE IF Len(s) > 1 /\ s[1] = "-" /\ AllDigits(Tail(s))
    THEN [ok |-> TRUE, v |-> 0 - Number(Tail(s))]
    ELSE [ok |-> FALSE]

\* int(limit): an int is itself, a float is truncated towards zero, a str is
\* parsed (ValueError when it is no number), None raises TypeError
int(limit) ==
    CASE limit.t = "int" -> [ok |-> TRUE, v |-> limit.i]
      [] limit.t = "float" ->
            [ok |-> TRUE,
             v |-> IF limit.n >= 0 THEN limit.n \div limit.d
                   ELSE 0 - ((0 - limit.n) \div limit.d)]
      [] limit.t = "str" -> IntOfStr(limit.v)
      [] OTHER -> [ok |-> FALSE]

\* a tool that cuts the fetched list to the limit before it filters
list_workspace_members_body_truncate_first(limit, contains, result) ==
    LET fetched == Get(result, "data", <<>>)
        limit_int == int(limit)
    IN  IF ~limit_int.ok
        THEN Raise(Exception("ValueError", <<"limit must be an integer">>))
        ELSE IF limit_int.v < 0
        THEN Raise(Exception("ValueError", <<"limit must be >= 0">>))
        ELSE LET cut == Take(fetched, limit_int.v)
             IN  Return(json_dumps("data" :> (IF Truthy(contains)
                                              THEN FilterMembers(cut, lower(contains.v))
                                              ELSE cut)))

\* list_workspace_members, lines 208-234: from the fetched result to the text
list_workspace_members_body(limit, contains, result) ==
    LET fetched == Get(result, "data", <<>>)
        members == IF Truthy(contains)
                   THEN FilterMembers(fetched, lower(contains.v))
                   ELSE fetched
        limit_int == int(limit)
    IN  IF ~limit_int.ok
        THEN Raise(Exception("ValueError", <<"limit must be an integer">>))
        ELSE IF limit_int.v < 0
        THEN Raise(Exception("ValueError", <<"limit must be >= 0">>))
        ELSE Return(json_dumps("data" :> Take(members, limit_int.v)))

\* list_workspace_members, lines 206-237
tool_list_workspace_members(limit, contains, client_outcome) ==
    IF client_outcome.kind = "raise"
    THEN Return(ErrorText(client_outcome.exc))
    ELSE LET body == list_workspace_members_body(limit, contains, client_outcome.value)
         IN  IF body.kind = "raise" THEN Return(ErrorText(body.exc)) ELSE body

(***************************************************************************)
(* auth.py: BearerTokenVerifier.                                           *)
(***************************************************************************)
AccessToken(token, client_id) ==
    [token |-> token, client_id |-> client_id, scopes |-> <<"*">>,
     expires_at |-> None, resource |-> None]

\* a verifier that accepts whatever starts like the configured token
verify_token_prefix(token, expected_token) ==
    IF ~Truthy(expected_token) THEN AccessToken(token, "anonymous")
    ELSE IF /\ Len(token.v) <= Len(expected_token.v)
            /\ token.v = SubSeq(expected_token.v, 1, Len(token.v))
    THEN AccessToken(token, "attio-mcp-client")
    ELSE None

\* a verifier that rejects every token when none is configured
verify_token_closed(token, expected_token) ==
    IF ~Truthy(expected_token) THEN None
    ELSE IF token = expected_token THEN AccessToken(token, "attio-mcp-client")
    ELSE None

\* BearerTokenVerifier.verify_token, with expected_token = settings.mcp_bearer_token
verify_token(token, expected_token) ==
    IF ~Truthy(expected_token) THEN AccessToken(token, "anonymous")
    ELSE IF token = expected_token THEN AccessToken(token, "attio-mcp-client")
    ELSE None

(***************************************************************************)
(* Inputs: the arguments a caller passes and the answers of the remote.    *)
(***************************************************************************)
Names == {None, PyStr(<<>>), PyStr(<<"a", "c", "m", "e">>)}
Domains == {None, PyStr(<<>>), PyStr(<<"a", ".", "i", "o">>)}
OwnerIds == {None, PyStr(<<>>), PyStr(<<"m", "1">>)}
Emails == {None, PyStr(<<>>), PyStr(<<"a", "l", "@", "x">>)}

ReminderDates ==
    {None,
     PyStr(<<>>),
     PyStr(<<"2", "0", "2", "4", "-", "0", "1", "-", "0", "1">>),
     PyStr(<<"2", "0", "2", "4", "-", "1", "2", "-", "3", "1">>),
     PyStr(<<"2", "0", "2", "4", "0", "6", "1", "5">>),
     PyStr(<<"2", "0", "2", "4", "-", "0", "2", "-", "3", "0">>),
     PyStr(<<"2", "0", "2", "4", "-", "1", "-", "1">>)}

DefaultCompaniesLimit == 15
DefaultPeopleLimit == 10
DefaultMembersLimit == 100

RecordIds == {<<"r", "1">>, <<"r", "2">>}

\* raw bodies of error responses
BodyTexts == {<<>>, <<"o", "o", "p", "s">>}

\* answers that are not a decodable 2xx: error statuses, transport failures
\* (connection, timeout) and a 200 whose body does not decode
FailureResponses ==
    {HttpResponse(s, b, Undecodable) : s \in {302, 404, 500}, b \in BodyTexts}
    \cup {TransportFailure(e) : e \in {"ConnectError", "ReadTimeout"}}
    \cup {HttpResponse(200, <<"<", ">">>, Undecodable)}

Success(value) == HttpResponse(200, <<>>, value)

Records == {[id |-> "rec1"], [id |-> "rec2"]}

\* a query or notes result: {"data": [...]}
ListResponses ==
    {Success("data" :> <<>>), Success("data" :> <<[id |-> "rec1"]>>),
     Success("data" :> <<[id |-> "rec2"], [id |-> "rec1"]>>)}

\* a single record: {"data": {...}}
RecordResponses == {Success("data" :> r) : r \in Records}

\* workspace members as the remote returns them; a field can be null or missing
Members ==
    {[id |-> "m1", first_name |-> PyStr(<<"A", "l">>), last_name |-> PyStr(<<"B", "o">>),
      email_address |-> PyStr(<<"a", "l", "@", "x">>)],
     [id |-> "m2", first_name |-> PyStr(<<"B", "o", "b">>), last_name |-> None,
      email_address |-> PyStr(<<"B", "O", "B", "@", "x">>)],
     [id |-> "m3", last_name |-> PyStr(<<"L", "e", "e">>), email_address |-> None],
     [id |-> "m4", first_name |-> PyStr(<<"C", "a", "l">>),
      email_address |-> PyStr(<<"c", "a", "l", "@", "x">>)]}

\* sequences of members, up to n long
RECURSIVE MemberLists(_)
MemberLists(n) ==
    IF n = 0 THEN {<<>>}
    ELSE LET shorter == MemberLists(n - 1)
         IN  shorter \cup {Append(l, m) : l \in {s \in shorter : Len(s) = n - 1}, m \in Members}

MemberResponses ==
    {Success("data" :> l) : l \in MemberLists(MaxMembers)} \cup {Success("meta" :> <<>>)}

Needles ==
    {None, PyStr(<<>>), PyStr(<<"a", "l">>), PyStr(<<"A", "L", "@">>), PyStr(<<"l", " ", "b">>),
     PyStr(<<"l", " ">>), PyStr(<<"n", "o", "n", "e">>), PyStr(<<"z">>)}

MemberEmails ==
    {<<"b", "o", "b", "@", "X">>, <<"a", "l", "@", "x">>, <<"a", "l">>, <<>>}

\* the limit argument: declared int, but nothing converts or checks it
\* before the tool's own int(limit)
Limits ==
    {PyInt(n) : n \in (0 - 1)..MaxLimit}
    \cup {PyInt(DefaultMembersLimit), PyFloat(5, 2), PyFloat(0 - 1, 2),
          PyStr(<<"2">>), PyStr(<<"a", "b">>), None}

Assignees == {None, PyStr(<<"m", "1">>)}

\* deadline bounds: not given, or a day
DeadlineDates ==
    {None,
     PyStr(<<"2", "0", "2", "4", "-", "0", "1", "-", "1", "5">>),
     PyStr(<<"2", "0", "2", "4", "-", "0", "2", "-", "0", "1">>),
     PyStr(<<"2", "0", "2", "4", "-", "0", "3", "-", "0", "1">>)}

TaskLimits == 1..MaxLimit

\* tasks as the remote returns them; deadline_at is a timestamp, null or
\* missing.  The deadlines that fall on a day used as a bound are at
\* midnight, as in the tests.
Tasks ==
    {[id |-> "task-1",
      deadline_at |-> PyStr(<<"2", "0", "2", "4", "-", "0", "1", "-", "1", "5",
                              "T", "0", "0", ":", "0", "0", ":", "0", "0", "Z">>)],
     [id |-> "task-2",
      deadline_at |-> PyStr(<<"2", "0", "2", "4", "-", "0", "2", "-", "0", "1",
                              "T", "0", "0", ":", "0", "0", ":", "0", "0", "Z">>)],
     [id |-> "task-3",
      deadline_at |-> PyStr(<<"2", "0", "2", "4", "-", "0", "2", "-", "1", "0",
                              "T", "1", "0", ":", "0", "0", ":", "0", "0", "Z">>)],
     [id |-> "task-4", deadline_at |-> None],
     [id |-> "task-5"]}

\* sequences of tasks, up to n long
RECURSIVE TaskLists(_)
TaskLists(n) ==
    IF n = 0 THEN {<<>>}
    ELSE LET shorter == TaskLists(n - 1)
         IN  shorter \cup {Append(l, t) : l \in {s \in shorter : Len(s) = n - 1}, t \in Tasks}

TaskResponses == {Success("data" :> l) : l \in TaskLists(MaxTasks)}

\* bearer tokens: the strings over two characters up to MaxTokenLen long
TokenChars == {"a", "b"}

RECURSIVE TokenStrings(_)
TokenStrings(n) ==
    IF n = 0 THEN {<<>>}
    ELSE LET shorter == TokenStrings(n - 1)
         IN  shorter \cup {Append(s, c) : s \in {t \in shorter : Len(t) = n - 1}, c \in TokenChars}

\* the token a request presents
PresentedTokens == {PyStr(s) : s \in TokenStrings(MaxTokenLen)}

\* MCP_BEARER_TOKEN: unset, or any string, the empty one included
ConfiguredTokens == {None} \cup PresentedTokens

(***************************************************************************)
(* State: one tool invocation at a time, from the call to the text it      *)
(* returns.                                                                *)
(***************************************************************************)
VARIABLES
    pc,             \* "idle", "awaiting" (suspended in the await of the request), "done"
    tool,           \* the tool invoked
    args,           \* its arguments
    requests,       \* the HTTP requests issued by this invocation, in order
    response,       \* the remote's answer to the request
    client_result,  \* outcome of the AttioClient operation
    tool_result,    \* outcome of the tool
    python311,      \* whether date.fromisoformat accepts the basic form (Python >= 3.11)
    mcp_bearer_token, \* settings.mcp_bearer_token, loaded once at start
    mcp,            \* the FastMCP server built at start
    client,         \* attio_client: the one AttioClient all invocations use
    calls           \* the invocations in flight when tools run concurrently

vars ==
    <<pc, tool, args, requests, response, client_result, tool_result, python311,
      mcp_bearer_token, mcp, client, calls>>

NoResponse == [kind |-> "none"]

\* a server built whenever a token is set, the empty string included
FastMCP_unless_unset(token) ==
    [name |-> "attio-mcp",
     token_verifier |-> IF ~IsNone(token) THEN "BearerTokenVerifier" ELSE "none"]

\* server.py, lines 23-47: "if settings.mcp_bearer_token" builds the server
\* with a BearerTokenVerifier, otherwise without authentication
FastMCP(token) ==
    [name |-> "attio-mcp",
     token_verifier |-> IF Truthy(token) THEN "BearerTokenVerifier" ELSE "none"]

\* AttioClient.__init__, lines 17-28: base URL and headers of the shared client
NewClient ==
    [base_url |-> "https://api.attio.com/v2",
     headers |-> [Authorization |-> "Bearer <attio_api_key>",
                  ContentType |-> "application/json"]]

Invocations == 1..MaxInvocations

\* an invocation slot with no tool running in it
IdleCall ==
    [pc |-> "idle", tool |-> "none", args |-> <<>>, sent |-> <<>>, response |-> NoResponse,
     client_result |-> Pending, tool_result |-> Pending]

NoCalls == [i \in Invocations |-> IdleCall]

Init ==
    /\ pc = "idle"
    /\ tool = "none"
    /\ args = <<>>
    /\ requests = <<>>
    /\ response = NoResponse
    /\ client_result = Pending
    /\ tool_result = Pending
    /\ python311 \in BOOLEAN
    /\ mcp_bearer_token = None
    /\ mcp = FastMCP(mcp_bearer_token)
    /\ client = NewClient
    /\ calls = NoCalls

(***************************************************************************)
(* The tools.  Call_<tool> is the tool from its call to the await of the   *)
(* client's request (or to its end, when it ends before any request);      *)
(* Resume_<tool> is the rest, from the remote's answer to the returned     *)
(* text.                                                                   *)
(***************************************************************************)
Call_search_companies ==
    /\ pc = "idle"
    /\ \E name \in Names, domain \in Domains, owner_id \in OwnerIds,
          reminder_start \in ReminderDates, reminder_end \in ReminderDates,
          limit \in {MaxLimit, DefaultCompaniesLimit} :
        LET begun == search_companies_request(name, domain, owner_id, reminder_start,
                                              reminder_end, limit, python311)
        IN  /\ args' = [name |-> name, domain |-> domain, owner_id |-> owner_id,
                        reminder_start |-> reminder_start, reminder_end |-> reminder_end,
                        limit |-> limit]
            /\ IF begun.kind = "raise"
               THEN /\ pc' = "done"
                    /\ requests' = <<>>
                    /\ client_result' = begun
                    /\ tool_result' = tool_search_companies(begun)
               ELSE /\ pc' = "awaiting"
                    /\ requests' = <<begun.value>>
                    /\ UNCHANGED <<client_result, tool_result>>
    /\ tool' = "search_companies"
    /\ UNCHANGED <<response, python311, mcp_bearer_token, mcp, client, calls>>

Resume_search_companies ==
    /\ pc = "awaiting"
    /\ tool = "search_companies"
    /\ \E resp \in FailureResponses \cup ListResponses :
        LET out == search_companies_result(resp)
        IN  /\ response' = resp
            /\ client_result' = out
            /\ tool_result' = tool_search_companies(out)
    /\ pc' = "done"
    /\ UNCHANGED <<tool, args, requests, python311, mcp_bearer_token, mcp, client, calls>>

Call_get_company_details ==
    /\ pc = "idle"
    /\ \E company_id \in RecordIds :
        /\ args' = [company_id |-> company_id]
        /\ requests' = <<get_company_details_request(company_id)>>
    /\ pc' = "awaiting"
    /\ tool' = "get_company_details"
    /\ UNCHANGED <<response, client_result, tool_result, python311, mcp_bearer_token, mcp, client, calls>>

Resume_get_company_details ==
    /\ pc = "awaiting"
    /\ tool = "get_company_details"
    /\ \E resp \in FailureResponses \cup RecordResponses :
        LET out == get_company_details_result(args.company_id, resp)
        IN  /\ response' = resp
            /\ client_result' = out
            /\ tool_result' = tool_get_company_details(out)
    /\ pc' = "done"
    /\ UNCHANGED <<tool, args, requests, python311, mcp_bearer_token, mcp, client, calls>>

Call_get_company_notes ==
    /\ pc = "idle"
    /\ \E company_id \in RecordIds :
        /\ args' = [company_id |-> company_id]
        /\ requests' = <<get_company_notes_request(company_id)>>
    /\ pc' = "awaiting"
    /\ tool' = "get_company_notes"
    /\ UNCHANGED <<response, client_result, tool_result, python311, mcp_bearer_token, mcp, client, calls>>

Resume_get_company_notes ==
    /\ pc = "awaiting"
    /\ tool = "get_company_notes"
    /\ \E resp \in FailureResponses \cup ListResponses :
        LET out == _get_notes_result(resp)
        IN  /\ response' = resp
            /\ client_result' = out
            /\ tool_result' = tool_get_company_notes(out)
    /\ pc' = "done"
    /\ UNCHANGED <<tool, args, requests, python311, mcp_bearer_token, mcp, client, calls>>

Call_get_person_details ==
    /\ pc = "idle"
    /\ \E person_id \in RecordIds :
        /\ args' = [person_id |-> person_id]
        /\ requests' = <<get_person_details_request(person_id)>>
    /\ pc' = "awaiting"
    /\ tool' = "get_person_details"
    /\ UNCHANGED <<response, client_result, tool_result, python311, mcp_bearer_token, mcp, client, calls>>

Resume_get_person_details ==
    /\ pc = "awaiting"
    /\ tool = "get_person_details"
    /\ \E resp \in FailureResponses \cup RecordResponses :
        LET out == get_person_details_result(args.person_id, resp)
        IN  /\ response' = resp
            /\ client_result' = out
            /\ tool_result' = tool_get_person_details(out)
    /\ pc' = "done"
    /\ UNCHANGED <<tool, args, requests, python311, mcp_bearer_token, mcp, client, calls>>

Call_get_person_notes ==
    /\ pc = "idle"
    /\ \E person_id \in RecordIds :
        /\ args' = [person_id |-> person_id]
        /\ requests' = <<get_person_notes_request(person_id)>>
    /\ pc' = "awaiting"
    /\ tool' = "get_person_notes"
    /\ UNCHANGED <<response, client_result, tool_result, python311, mcp_bearer_token, mcp, client, calls>>

Resume_get_person_notes ==
    /\ pc = "awaiting"
    /\ tool = "get_person_notes"
    /\ \E resp \in FailureResponses \cup ListResponses :
        LET out == _get_notes_result(resp)
        IN  /\ response' = resp
            /\ client_result' = out
            /\ tool_result' = tool_get_person_notes(out)
    /\ pc' = "done"
    /\ UNCHANGED <<tool, args, requests, python311, mcp_bearer_token, mcp, client, calls>>

Call_get_workspace_member ==
    /\ pc = "idle"
    /\ \E member_id \in RecordIds :
        /\ args' = [member_id |-> member_id]
        /\ requests' = <<get_workspace_member_request(member_id)>>
    /\ pc' = "awaiting"
    /\ tool' = "get_workspace_member"
    /\ UNCHANGED <<response, client_result, tool_result, python311, mcp_bearer_token, mcp, client, calls>>

Resume_get_workspace_member ==
    /\ pc = "awaiting"
    /\ tool = "get_workspace_member"
    /\ \E resp \in FailureResponses \cup RecordResponses :
        LET out == get_workspace_member_result(args.member_id, resp)
        IN  /\ response' = resp
            /\ client_result' = out
            /\ tool_result' = tool_get_workspace_member(out)
    /\ pc' = "done"
    /\ UNCHANGED <<tool, args, requests, python311, mcp_bearer_token, mcp, client, calls>>

Call_search_people ==
    /\ pc = "idle"
    /\ \E query \in Names \ {None}, email \in Emails,
          limit \in {1, MaxLimit, DefaultPeopleLimit} :
        /\ args' = [query |-> query, email |-> email, limit |-> limit]
        /\ requests' = <<search_people_request(query, email, limit)>>
    /\ pc' = "awaiting"
    /\ tool' = "search_people"
    /\ UNCHANGED <<response, client_result, tool_result, python311, mcp_bearer_token, mcp, client, calls>>

Resume_search_people ==
    /\ pc = "awaiting"
    /\ tool = "search_people"
    /\ \E resp \in FailureResponses \cup ListResponses :
        LET out == search_people_result(resp)
        IN  /\ response' = resp
            /\ client_result' = out
            /\ tool_result' = tool_search_people(out)
    /\ pc' = "done"
    /\ UNCHANGED <<tool, args, requests, python311, mcp_bearer_token, mcp, client, calls>>

Call_search_workspace_member_by_email ==
    /\ pc = "idle"
    /\ \E email \in MemberEmails :
        /\ args' = [email |-> email]
        /\ requests' = <<list_workspace_members_request>>
    /\ pc' = "awaiting"
    /\ tool' = "search_workspace_member_by_email"
    /\ UNCHANGED <<response, client_result, tool_result, python311, mcp_bearer_token, mcp, client, calls>>

Resume_search_workspace_member_by_email ==
    /\ pc = "awaiting"
    /\ tool = "search_workspace_member_by_email"
    /\ \E resp \in FailureResponses \cup MemberResponses :
        LET out == list_workspace_members_result(resp)
        IN  /\ response' = resp
            /\ client_result' = out
            /\ tool_result' = tool_search_workspace_member_by_email(args.email, out)
    /\ pc' = "done"
    /\ UNCHANGED <<tool, args, requests, python311, mcp_bearer_token, mcp, client, calls>>

\* the tool awaits the client's fetch before it looks at limit or contains
Call_list_workspace_members ==
    /\ pc = "idle"
    /\ \E limit \in Limits, contains \in Needles :
        /\ args' = [limit |-> limit, contains |-> contains]
        /\ requests' = <<list_workspace_members_request>>
    /\ pc' = "awaiting"
    /\ tool' = "list_workspace_members"
    /\ UNCHANGED <<response, client_result, tool_result, python311, mcp_bearer_token, mcp, client, calls>>

\* a handler that asks again, once, after a transport failure
Resume_list_workspace_members_retry ==
    /\ pc = "awaiting"
    /\ tool = "list_workspace_members"
    /\ \E resp \in FailureResponses \cup MemberResponses :
        LET out == list_workspace_members_result(resp)
        IN  IF resp.kind = "transport" /\ Len(requests) = 1
            THEN /\ requests' = Append(requests, list_workspace_members_request)
                 /\ pc' = "awaiting"
                 /\ UNCHANGED <<response, client_result, tool_result>>
            ELSE /\ response' = resp
                 /\ client_result' = out
                 /\ tool_result' = tool_list_workspace_members(args.limit, args.contains, out)
                 /\ pc' = "done"
                 /\ UNCHANGED requests
    /\ UNCHANGED <<tool, args, python311, mcp_bearer_token, mcp, client, calls>>

Resume_list_workspace_members ==
    /\ pc = "awaiting"
    /\ tool = "list_workspace_members"
    /\ \E resp \in FailureResponses \cup MemberResponses :
        LET out == list_workspace_members_result(resp)
        IN  /\ response' = resp
            /\ client_result' = out
            /\ tool_result' = tool_list_workspace_members(args.limit, args.contains, out)
    /\ pc' = "done"
    /\ UNCHANGED <<tool, args, requests, python311, mcp_bearer_token, mcp, client, calls>>

\* AttioClient.list_tasks, called on the client as the tests call it: no
\* tool wraps it, so there is no tool text
Call_list_tasks ==
    /\ pc = "idle"
    /\ \E assignee \in Assignees, deadline_start \in DeadlineDates,
          deadline_end \in DeadlineDates, limit \in TaskLimits :
        LET begun == list_tasks_request(assignee, deadline_start, deadline_end, limit,
                                       python311)
        IN  /\ args' = [assignee |-> assignee, deadline_start |-> deadline_start,
                        deadline_end |-> deadline_end, limit |-> limit]
            /\ IF begun.kind = "raise"
               THEN /\ pc' = "done"
                    /\ requests' = <<>>
                    /\ client_result' = begun
               ELSE /\ pc' = "awaiting"
                    /\ requests' = <<begun.value>>
                    /\ UNCHANGED client_result
    /\ tool' = "list_tasks"
    /\ UNCHANGED <<response, tool_result, python311, mcp_bearer_token, mcp, client, calls>>

Resume_list_tasks ==
    /\ pc = "awaiting"
    /\ tool = "list_tasks"
    /\ \E resp \in FailureResponses \cup TaskResponses :
        /\ response' = resp
        /\ client_result' = list_tasks_result(args.deadline_start, args.deadline_end,
                                              args.limit, python311, resp)
    /\ pc' = "done"
    /\ UNCHANGED <<tool, args, requests, tool_result, python311, mcp_bearer_token, mcp, client, calls>>

\* the text is handed to the caller; the server is ready for the next call
Finish ==
    /\ pc = "done"
    /\ pc' = "idle"
    /\ tool' = "none"
    /\ args' = <<>>
    /\ requests' = <<>>
    /\ response' = NoResponse
    /\ client_result' = Pending
    /\ tool_result' = Pending
    /\ UNCHANGED <<python311, mcp_bearer_token, mcp, client, calls>>

Next ==
    \/ Call_search_companies
    \/ Resume_search_companies
    \/ Call_get_company_details
    \/ Resume_get_company_details
    \/ Call_get_company_notes
    \/ Resume_get_company_notes
    \/ Call_search_people
    \/ Resume_search_people
    \/ Call_get_person_details
    \/ Resume_get_person_details
    \/ Call_get_person_notes
    \/ Resume_get_person_notes
    \/ Call_get_workspace_member
    \/ Resume_get_workspace_member
    \/ Call_search_workspace_member_by_email
    \/ Resume_search_workspace_member_by_email
    \/ Call_list_workspace_members
    \/ Resume_list_workspace_members
    \/ Finish

Spec == Init /\ [][Next]_vars

\* the client's list_tasks called on its own
TasksNext ==
    \/ Call_list_tasks
    \/ Resume_list_tasks
    \/ Finish

TasksSpec == Init /\ [][TasksNext]_vars

\* the verifier on its own, under every configuration of the token
AuthInit ==
    /\ pc = "idle"
    /\ tool = "none"
    /\ args = <<>>
    /\ requests = <<>>
    /\ response = NoResponse
    /\ client_result = Pending
    /\ tool_result = Pending
    /\ python311 \in BOOLEAN
    /\ mcp_bearer_token \in ConfiguredTokens
    /\ mcp = FastMCP(mcp_bearer_token)
    /\ client = NewClient
    /\ calls = NoCalls

\* BearerTokenVerifier.verify_token(token): a plain call, no request
Call_verify_token ==
    /\ pc = "idle"
    /\ \E token \in PresentedTokens :
        /\ args' = [token |-> token]
        /\ client_result' = Return(verify_token(token, mcp_bearer_token))
    /\ pc' = "done"
    /\ tool' = "verify_token"
    /\ UNCHANGED <<requests, response, tool_result, python311, mcp_bearer_token, mcp, client, calls>>

AuthNext ==
    \/ Call_verify_token
    \/ Finish

AuthSpec == AuthInit /\ [][AuthNext]_vars

(***************************************************************************)
(* Concurrent invocations.  The tools are coroutines of one event loop and *)
(* all use the module-level attio_client (server.py, line 50): an          *)
(* invocation runs from its call to the await of its request, other        *)
(* invocations run while it is suspended, and it resumes with the answer   *)
(* to its own request.  Every request goes out with the base URL and the   *)
(* headers the shared client holds at that moment.                         *)
(***************************************************************************)
ToolNames ==
    {"search_companies", "get_company_details", "get_company_notes", "search_people",
     "get_person_details", "get_person_notes", "get_workspace_member",
     "search_workspace_member_by_email", "list_workspace_members"}

\* the arguments of the concurrent invocations: a few per tool
ToolArgs(t) ==
    CASE t = "search_companies" ->
            {[name |-> PyStr(<<"a", "c", "m", "e">>), domain |-> None, owner_id |-> None,
              reminder_start |-> s, reminder_end |-> None, limit |-> DefaultCompaniesLimit] :
                s \in {None, PyStr(<<>>)}}
      [] t = "get_company_details" -> {[company_id |-> <<"r", "1">>]}
      [] t = "get_company_notes" -> {[company_id |-> <<"r", "1">>]}
      [] t = "search_people" ->
            {[query |-> PyStr(<<"a", "c", "m", "e">>), email |-> None,
              limit |-> DefaultPeopleLimit]}
      [] t = "get_person_details" -> {[person_id |-> <<"r", "2">>]}
      [] t = "get_person_notes" -> {[person_id |-> <<"r", "2">>]}
      [] t = "get_workspace_member" -> {[member_id |-> <<"r", "1">>]}
      [] t = "search_workspace_member_by_email" -> {[email |-> <<"a", "l", "@", "x">>]}
      [] t = "list_workspace_members" ->
            {[limit |-> PyInt(1), contains |-> c] : c \in {None, PyStr(<<"a", "l">>)}}

\* the remote's answers to them
ToolResponses(t) ==
    {HttpResponse(404, <<"o", "o", "p", "s">>, Undecodable), TransportFailure("ReadTimeout")}
    \cup (CASE t \in {"search_companies", "search_people", "get_company_notes",
                      "get_person_notes"} ->
                {Success("data" :> <<[id |-> "rec1"]>>)}
            [] t \in {"get_company_details", "get_person_details", "get_workspace_member"} ->
                {Success("data" :> [id |-> "rec1"])}
            [] OTHER -> {Success("data" :> l) : l \in MemberLists(1)})

\* the tool up to its await: the request it issues, or the exception raised
\* before any request
ToolRequest(t, a, basic) ==
    CASE t = "search_companies" ->
            search_companies_request(a.name, a.domain, a.owner_id, a.reminder_start,
                                     a.reminder_end, a.limit, basic)
      [] t = "get_company_details" -> Return(get_company_details_request(a.company_id))
      [] t = "get_company_notes" -> Return(get_company_notes_request(a.company_id))
      [] t = "search_people" -> Return(search_people_request(a.query, a.email, a.limit))
      [] t = "get_person_details" -> Return(get_person_details_request(a.person_id))
      [] t = "get_person_notes" -> Return(get_person_notes_request(a.person_id))
      [] t = "get_workspace_member" -> Return(get_workspace_member_request(a.member_id))
      [] t = "search_workspace_member_by_email" -> Return(list_workspace_members_request)
      [] t = "list_workspace_members" -> Return(list_workspace_members_request)

\* the client operation from the remote's answer on
ClientResult(t, a, resp) ==
    CASE t = "search_companies" -> search_companies_result(resp)
      [] t = "get_company_details" -> get_company_details_result(a.company_id, resp)
      [] t = "get_company_notes" -> _get_notes_result(resp)
      [] t = "search_people" -> search_people_result(resp)
      [] t = "get_person_details" -> get_person_details_result(a.person_id, resp)
      [] t = "get_person_notes" -> _get_notes_result(resp)
      [] t = "get_workspace_member" -> get_workspace_member_result(a.member_id, resp)
      [] t = "search_workspace_member_by_email" -> list_workspace_members_result(resp)
      [] t = "list_workspace_members" -> list_workspace_members_result(resp)

\* the text the tool returns for the client operation's outcome
ToolText(t, a, out) ==
    CASE t = "search_companies" -> tool_search_companies(out)
      [] t = "get_company_details" -> tool_get_company_details(out)
      [] t = "get_company_notes" -> tool_get_company_notes(out)
      [] t = "search_people" -> tool_search_people(out)
      [] t = "get_person_details" -> tool_get_person_details(out)
      [] t = "get_person_notes" -> tool_get_person_notes(out)
      [] t = "get_workspace_member" -> tool_get_workspace_member(out)
      [] t = "search_workspace_member_by_email" ->
            tool_search_workspace_member_by_email(a.email, out)
      [] t = "list_workspace_members" -> tool_list_workspace_members(a.limit, a.contains, out)

\* a request as it leaves the shared client
Sent(request) == [base_url |-> client.base_url, headers |-> client.headers, request |-> request]

\* the state of the single-invocation view, unused while invocations overlap
sequential == <<pc, tool, args, requests, response, client_result, tool_result>>

\* an invocation that leaves a header of its own on the shared client
ConcCall_sets_header(i) ==
    /\ calls[i].pc = "idle"
    /\ \E t \in ToolNames :
        \E a \in ToolArgs(t) :
            LET begun == ToolRequest(t, a, python311)
            IN  /\ calls' = [calls EXCEPT ![i] =
                        IF begun.kind = "raise"
                        THEN [pc |-> "done", tool |-> t, args |-> a, sent |-> <<>>,
                              response |-> NoResponse, client_result |-> begun,
                              tool_result |-> ToolText(t, a, begun)]
                        ELSE [pc |-> "awaiting", tool |-> t, args |-> a,
                              sent |-> <<Sent(begun.value)>>, response |-> NoResponse,
                              client_result |-> Pending, tool_result |-> Pending]]
                /\ client' = [client EXCEPT !.headers.Authorization = t]
    /\ UNCHANGED <<sequential, python311, mcp_bearer_token, mcp>>

\* invocation i is called and runs to the await of its request
ConcCall(i) ==
    /\ calls[i].pc = "idle"
    /\ \E t \in ToolNames :
        \E a \in ToolArgs(t) :
            LET begun == ToolRequest(t, a, python311)
            IN  calls' = [calls EXCEPT ![i] =
                    IF begun.kind = "raise"
                    THEN [pc |-> "done", tool |-> t, args |-> a, sent |-> <<>>,
                          response |-> NoResponse, client_result |-> begun,
                          tool_result |-> ToolText(t, a, begun)]
                    ELSE [pc |-> "awaiting", tool |-> t, args |-> a,
                          sent |-> <<Sent(begun.value)>>, response |-> NoResponse,
                          client_result |-> Pending, tool_result |-> Pending]]
    /\ UNCHANGED <<sequential, python311, mcp_bearer_token, mcp, client>>

\* the answer to invocation i's request arrives and it runs to its end
ConcResume(i) ==
    /\ calls[i].pc = "awaiting"
    /\ \E resp \in ToolResponses(calls[i].tool) :
        LET out == ClientResult(calls[i].tool, calls[i].args, resp)
        IN  calls' = [calls EXCEPT ![i] =
                [@ EXCEPT !.pc = "done", !.response = resp, !.client_result = out,
                          !.tool_result = ToolText(calls[i].tool, calls[i].args, out)]]
    /\ UNCHANGED <<sequential, python311, mcp_bearer_token, mcp, client>>

\* invocation i's text is handed to its caller
ConcReturn(i) ==
    /\ calls[i].pc = "done"
    /\ calls' = [calls EXCEPT ![i] = IdleCall]
    /\ UNCHANGED <<sequential, python311, mcp_bearer_token, mcp, client>>

ConcNext == \E i \in Invocations : ConcCall(i) \/ ConcResume(i) \/ ConcReturn(i)

ConcSpec == Init /\ [][ConcNext]_vars

(***************************************************************************)
(* Properties.                                                             *)
(***************************************************************************)
CompanyCriteria == <<"name", "domains", "owner", "reminder">>

\* whether a search_companies call supplies the criterion
IsActive(a, key) ==
    CASE key = "name" -> Truthy(a.name)
      [] key = "domains" -> Truthy(a.domain)
      [] key = "owner" -> Truthy(a.owner_id)
      [] key = "reminder" -> ~IsNone(a.reminder_start) \/ ~IsNone(a.reminder_end)

ActiveKeys(a) == {CompanyCriteria[i] : i \in {j \in 1..4 : IsActive(a, CompanyCriteria[j])}}

Position(key) == CHOOSE i \in 1..4 : CompanyCriteria[i] = key

\* the predicate is the one the call's argument asks for
PredicateOf(pred, a) ==
    /\ "name" \in DOMAIN pred => pred["name"] = ("$contains" :> a.name.v)
    /\ "domains" \in DOMAIN pred => pred["domains"] = ("domain" :> ("$eq" :> a.domain.v))
    /\ "owner" \in DOMAIN pred =>
            /\ pred["owner"].referenced_actor_type = "workspace-member"
            /\ pred["owner"].referenced_actor_id = a.owner_id.v
    /\ "reminder" \in DOMAIN pred => DOMAIN pred["reminder"] \subseteq {"$gte", "$lte"}

\* C1: the payload of a search_companies request has no filter when no
\* criterion is active, the bare predicate as filter when exactly one is, and
\* {"$and": [...]} with exactly the active predicates in the order name,
\* domain, owner, reminder when two or more are.
C1_FilterShape ==
    (tool = "search_companies" /\ requests # <<>>) =>
        LET payload == requests[1].json
            active == ActiveKeys(args)
            n == Cardinality(active)
        IN  /\ payload["limit"] = args.limit
            /\ n = 0 => DOMAIN payload = {"limit"}
            /\ n = 1 =>
                /\ DOMAIN payload = {"limit", "filter"}
                /\ DOMAIN payload["filter"] = active
                /\ PredicateOf(payload["filter"], args)
            /\ n >= 2 =>
                /\ DOMAIN payload = {"limit", "filter"}
                /\ DOMAIN payload["filter"] = {"$and"}
                /\ LET list == payload["filter"]["$and"]
                   IN  /\ Len(list) = n
                       /\ \A i \in 1..Len(list) :
                            /\ Cardinality(DOMAIN list[i]) = 1
                            /\ DOMAIN list[i] \subseteq active
                            /\ PredicateOf(list[i], args)
                       /\ \A i, j \in 1..Len(list) :
                            i < j => \A ki \in DOMAIN list[i], kj \in DOMAIN list[j] :
                                        Position(ki) < Position(kj)

C1_Witness ==
    /\ tool = "search_companies"
    /\ pc = "awaiting"
    /\ Cardinality(ActiveKeys(args)) = 4
    /\ Len(requests[1].json["filter"]["$and"]) = 4

\* the day a date string names, as a number that grows with the calendar
DayNumber(s) ==
    LET parsed == fromisoformat(s.v, python311)
    IN  parsed.date[1] * 10000 + parsed.date[2] * 100 + parsed.date[3]

IsDate(s) == IsStr(s) /\ fromisoformat(s.v, python311).ok

\* both bounds are dates and the start is after the end
ReversedRange(a) ==
    /\ IsDate(a.reminder_start)
    /\ IsDate(a.reminder_end)
    /\ DayNumber(a.reminder_start) > DayNumber(a.reminder_end)

\* C2: search_companies with reminder_start after reminder_end raises
\* ValueError and no HTTP request is issued at any point of the call.
C2_ReversedRangeRejected ==
    (tool = "search_companies" /\ ReversedRange(args)) =>
        /\ requests = <<>>
        /\ pc = "done"
        /\ client_result.kind = "raise"
        /\ client_result.exc.type = "ValueError"

C2_Witness ==
    /\ tool = "search_companies"
    /\ ReversedRange(args)
    /\ Truthy(args.name)
    /\ pc = "done"
    /\ client_result.kind = "raise"

NotesTools == {"get_company_notes", "get_person_notes"}
DetailTools == {"get_company_details", "get_person_details", "get_workspace_member"}

Answered(status) == pc = "done" /\ response.kind = "http" /\ response.status = status

\* C3: get_company_notes and get_person_notes return {"data": []} and do not
\* raise when the /notes request answers 404, whatever the record id.
C3_NotesNotFoundIsEmpty ==
    (tool \in NotesTools /\ Answered(404)) =>
        /\ client_result.kind = "return"
        /\ client_result.value = ("data" :> <<>>)

C3_Witness ==
    /\ tool = "get_person_notes"
    /\ Answered(404)
    /\ client_result.kind = "return"
    /\ requests[1].params.parent_record_id = args.person_id

NotFoundText ==
    [get_company_details |-> "Company not found: ",
     get_person_details |-> "Person not found: ",
     get_workspace_member |-> "Workspace member not found: "]

RequestedId ==
    CASE tool = "get_company_details" -> args.company_id
      [] tool = "get_person_details" -> args.person_id
      [] tool = "get_workspace_member" -> args.member_id

\* C4: a 404 on a detail lookup raises the entity's own "not found" error,
\* which names the requested id and is not the generic API error; the call
\* returns no value.
C4_DetailNotFound ==
    (tool \in DetailTools /\ Answered(404)) =>
        /\ client_result.kind = "raise"
        /\ Len(client_result.exc.msg) = 2
        /\ client_result.exc.msg[1] = NotFoundText[tool]
        /\ client_result.exc.msg[1] # "Attio API error: "
        /\ client_result.exc.msg[2] = RequestedId

C4_Witness ==
    /\ tool = "get_workspace_member"
    /\ Answered(404)
    /\ client_result.kind = "raise"
    /\ client_result.exc.msg[1] = "Workspace member not found: "

StatusDigits == (302 :> "302") @@ (404 :> "404") @@ (500 :> "500")

\* C5: a non-2xx status that is not a 404 of a detail or notes endpoint
\* raises the generic API error, whose message carries the status code and
\* the raw response body.
C5_GenericApiError ==
    (/\ pc = "done"
     /\ response.kind = "http"
     /\ ~(response.status \in 200..299)
     /\ ~(response.status = 404 /\ tool \in DetailTools \cup NotesTools)) =>
        /\ client_result.kind = "raise"
        /\ client_result.exc.type = "Exception"
        /\ Len(client_result.exc.msg) = 4
        /\ client_result.exc.msg[1] = "Attio API error: "
        /\ client_result.exc.msg[2] = StatusDigits[response.status]
        /\ client_result.exc.msg[4] = response.text

C5_Witness ==
    /\ tool = "get_company_notes"
    /\ Answered(500)
    /\ response.text # <<>>
    /\ client_result.kind = "raise"
    /\ client_result.exc.msg[2] = "500"

\* the limit is rejected by the tool's validation: int() fails on it, or it
\* converts to a negative number
LimitRejected(limit) ==
    \/ IsNone(limit)
    \/ limit.t = "int" /\ limit.i < 0
    \/ limit.t = "str" /\ ~AllDigits(limit.v)

\* C6: every tool returns a text and never raises; when the client operation
\* raised or the tool's own processing failed (a rejected limit, lower() of
\* a null email address), the text starts with "Error: ".
C6_ToolsReturnText ==
    pc = "done" =>
        /\ tool_result.kind = "return"
        /\ tool_result.value.head \in {"Error: ", "{"}
        /\ client_result.kind = "raise" => tool_result.value.head = "Error: "
        /\ (tool = "list_workspace_members" /\ LimitRejected(args.limit)) =>
                tool_result.value.head = "Error: "
        /\ (/\ tool = "search_workspace_member_by_email"
            /\ client_result.kind = "return"
            /\ Get(client_result.value, "data", <<>>) # <<>>
            /\ IsNone(Get(Get(client_result.value, "data", <<>>)[1], "email_address",
                           PyStr(<<>>)))) =>
                tool_result.value.head = "Error: "

C6_Witness ==
    /\ pc = "done"
    /\ tool = "get_workspace_member"
    /\ response.kind = "transport"
    /\ client_result.kind = "raise"
    /\ tool_result.kind = "return"
    /\ tool_result.value.head = "Error: "

Range(seq) == {seq[i] : i \in 1..Len(seq)}

\* the members the client fetched for the tool
Fetched == Get(client_result.value, "data", <<>>)

\* the members in the tool's JSON text
Returned == tool_result.value.json["data"]

ListedMembers ==
    /\ pc = "done"
    /\ tool = "list_workspace_members"
    /\ client_result.kind = "return"

\* the text of a field that holds one; a null or missing field holds none
FieldText(member, key) ==
    IF key \in DOMAIN member /\ IsStr(member[key]) THEN member[key].v ELSE <<>>

\* the needle occurs, ignoring case, in the first name, the last name, the
\* trimmed "first last" or the email address
NeedleInFields(member, contains) ==
    LET needle == lower(contains.v)
        first == FieldText(member, "first_name")
        last == FieldText(member, "last_name")
        email == FieldText(member, "email_address")
    IN  \/ Contains(needle, lower(first))
        \/ Contains(needle, lower(last))
        \/ Contains(needle, lower(strip(first \o <<" ">> \o last)))
        \/ Contains(needle, lower(email))

\* C7: list_workspace_members with a non-empty needle (and the default
\* limit) returns exactly the fetched members in one of whose fields the
\* needle occurs, and no other member.
C7_ExactlyTheMatchingMembers ==
    (/\ ListedMembers
     /\ Truthy(args.contains)
     /\ args.limit.t = "int"
     /\ args.limit.i = DefaultMembersLimit) =>
        /\ tool_result.value.head = "{"
        /\ \A m \in Members :
            m \in Range(Returned) <=> (m \in Range(Fetched) /\ NeedleInFields(m, args.contains))

\* the limit is no non-negative whole number
NotWholeNumber(limit) ==
    \/ IsNone(limit)
    \/ limit.t = "int" /\ limit.i < 0
    \/ limit.t = "float" /\ (limit.n < 0 \/ limit.n % limit.d # 0)
    \/ limit.t = "str" /\ ~AllDigits(limit.v)

\* C8: list_workspace_members with a limit that is no non-negative whole
\* number answers an "Error: " text, never a list of members.
C8_InvalidLimitIsAnError ==
    (pc = "done" /\ tool = "list_workspace_members" /\ NotWholeNumber(args.limit)) =>
        tool_result.value.head = "Error: "

\* C9: in list_workspace_members no request is issued before an invalid
\* limit is rejected.
C9_NoRequestBeforeRejection ==
    (tool = "list_workspace_members" /\ LimitRejected(args.limit)) => requests = <<>>

\* the positions of the fetched members that the tool's filter keeps
KeptPositions ==
    {i \in 1..Len(Fetched) :
        Truthy(args.contains) => matches(Fetched[i], lower(args.contains.v))}

\* how many kept members there are up to position i
Rank(i) == Cardinality({j \in KeptPositions : j <= i})

\* C10: with a valid limit N >= 0 the tool returns the first N kept members
\* in their original order, all of them when fewer than N are kept: the
\* k-th returned member is the k-th kept member of the fetched collection,
\* wherever it stands in it.
C10_FirstNOfFiltered ==
    (ListedMembers /\ args.limit.t = "int" /\ args.limit.i >= 0) =>
        /\ tool_result.value.head = "{"
        /\ Len(Returned) = Min(args.limit.i, Cardinality(KeptPositions))
        /\ \A i \in KeptPositions :
            Rank(i) <= args.limit.i => Returned[Rank(i)] = Fetched[i]

\* a kept member that stands after the N-th fetched entry is returned
C10_Witness ==
    /\ ListedMembers
    /\ Truthy(args.contains)
    /\ args.limit.t = "int"
    /\ args.limit.i >= 1
    /\ \E i \in KeptPositions :
        /\ i > args.limit.i
        /\ Rank(i) <= args.limit.i
        /\ Returned[Rank(i)] = Fetched[i]
        /\ Len(Returned) < Len(Fetched)

(***************************************************************************)
(* list_tasks.                                                             *)
(***************************************************************************)
DeadlineBoundGiven == ~IsNone(args.deadline_start) \/ ~IsNone(args.deadline_end)

Decoded == response.kind = "http" /\ is_success(response.status) /\ json(response).kind = "return"

\* C11: list_tasks issues one GET /tasks.  With a deadline bound it asks for
\* limit=500 and offset=0 whatever limit the caller gave; with no deadline
\* bound it passes the caller's assignee and limit and returns the decoded
\* response unchanged.
C11_TasksRequest ==
    (tool = "list_tasks" /\ (pc = "awaiting" \/ requests # <<>>)) =>
        /\ Len(requests) = 1
        /\ requests[1].method = "GET"
        /\ requests[1].url = <<"/tasks">>
        /\ DeadlineBoundGiven =>
            /\ requests[1].params["limit"] = TaskPageLimit
            /\ requests[1].params["offset"] = 0
        /\ ~DeadlineBoundGiven =>
            /\ requests[1].params["limit"] = args.limit
            /\ ~IsNone(args.assignee) => requests[1].params["assignee"] = args.assignee.v
            /\ IsNone(args.assignee) => "assignee" \notin DOMAIN requests[1].params
            /\ (pc = "done" /\ Decoded) => client_result = Return(response.json)

C11_Witness ==
    /\ tool = "list_tasks"
    /\ pc = "done"
    /\ ~IsNone(args.deadline_start)
    /\ IsNone(args.deadline_end)
    /\ args.limit = 1
    /\ requests[1].params["limit"] = TaskPageLimit
    /\ requests[1].params["offset"] = 0

\* the tasks of the remote's page
FetchedTasks == response.json["data"]

\* YYYYMMDD of a day or of a timestamp that starts with one
DayOf(s) == Number(SubSeq(s, 1, 4) \o SubSeq(s, 6, 7) \o SubSeq(s, 9, 10))

HasDeadline(task) == "deadline_at" \in DOMAIN task /\ IsStr(task["deadline_at"])

WithinDeadlineBounds(task) ==
    /\ HasDeadline(task)
    /\ ~IsNone(args.deadline_start) => DayOf(task["deadline_at"].v) >= DayOf(args.deadline_start.v)
    /\ ~IsNone(args.deadline_end) => DayOf(task["deadline_at"].v) <= DayOf(args.deadline_end.v)

KeptTaskPositions == {i \in 1..Len(FetchedTasks) : WithinDeadlineBounds(FetchedTasks[i])}

\* how many kept tasks there are up to position i
TaskRank(i) == Cardinality({j \in KeptTaskPositions : j <= i})

FilteredTasks ==
    /\ tool = "list_tasks"
    /\ pc = "done"
    /\ DeadlineBoundGiven
    /\ Decoded

\* C12: with a deadline bound list_tasks returns the tasks of the page that
\* have a deadline within the inclusive bounds, in their original order and
\* cut to the caller's limit after the filter: the k-th returned task is the
\* k-th such task of the page, and no task without a deadline is returned.
C12_DeadlineFilter ==
    FilteredTasks =>
        /\ client_result.kind = "return"
        /\ Len(client_result.value["data"])
            = Min(args.limit, Cardinality(KeptTaskPositions))
        /\ \A i \in KeptTaskPositions :
            TaskRank(i) <= args.limit =>
                client_result.value["data"][TaskRank(i)] = FetchedTasks[i]
        /\ \A k \in 1..Len(client_result.value["data"]) :
            HasDeadline(client_result.value["data"][k])

\* a task on the lower bound's day is returned from behind deadline-less and
\* too-early tasks that alone would have filled the caller's limit
C12_Witness ==
    /\ FilteredTasks
    /\ ~IsNone(args.deadline_start)
    /\ args.limit = 1
    /\ Len(FetchedTasks) = MaxTasks
    /\ ~HasDeadline(FetchedTasks[1])
    /\ HasDeadline(FetchedTasks[2])
    /\ ~WithinDeadlineBounds(FetchedTasks[2])
    /\ WithinDeadlineBounds(FetchedTasks[3])
    /\ DayOf(FetchedTasks[3]["deadline_at"].v) = DayOf(args.deadline_start.v)
    /\ client_result.value["data"] = <<FetchedTasks[3]>>

ReversedDeadlines ==
    /\ tool = "list_tasks"
    /\ ~IsNone(args.deadline_start)
    /\ ~IsNone(args.deadline_end)
    /\ DayOf(args.deadline_start.v) > DayOf(args.deadline_end.v)

\* C13: list_tasks with deadline_start after deadline_end raises ValueError
\* and issues no request: the call is over at once, with an empty request
\* log and no answer from the remote.
C13_ReversedDeadlinesRejected ==
    ReversedDeadlines =>
        /\ pc = "done"
        /\ requests = <<>>
        /\ response = NoResponse
        /\ client_result.kind = "raise"
        /\ client_result.exc.type = "ValueError"

C13_Witness ==
    /\ ReversedDeadlines
    /\ pc = "done"
    /\ client_result.kind = "raise"
    /\ client_result.exc.type = "ValueError"
    /\ requests = <<>>

(***************************************************************************)
(* search_companies: the reminder range.                                   *)
(***************************************************************************)
\* the top-level predicates of a query payload
Fragments(payload) ==
    IF "filter" \notin DOMAIN payload THEN <<>>
    ELSE IF "$and" \in DOMAIN payload["filter"] THEN payload["filter"]["$and"]
    ELSE <<payload["filter"]>>

\* a day written YYYY-MM-DD, from that form or from YYYYMMDD
Hyphenated(s) ==
    IF Len(s) = 8
    THEN SubSeq(s, 1, 4) \o <<"-">> \o SubSeq(s, 5, 6) \o <<"-">> \o SubSeq(s, 7, 8)
    ELSE s

\* C14: the reminder bounds of search_companies are optional one by one and
\* make one predicate: {"reminder": {"$gte": start}} for a start alone,
\* {"reminder": {"$lte": end}} for an end alone, {"reminder": {"$gte": start,
\* "$lte": end}} for both, never two top-level predicates; the range counts
\* as one fragment of the filter.  The bounds are written YYYY-MM-DD.
C14_ReminderPredicate ==
    (tool = "search_companies" /\ requests # <<>>) =>
        LET frags == Fragments(requests[1].json)
            reminders == {i \in 1..Len(frags) : "reminder" \in DOMAIN frags[i]}
            has_start == ~IsNone(args.reminder_start)
            has_end == ~IsNone(args.reminder_end)
        IN  /\ Len(frags) = Cardinality(ActiveKeys(args))
            /\ \A i \in 1..Len(frags) : DOMAIN frags[i] \cap {"$gte", "$lte"} = {}
            /\ (~has_start /\ ~has_end) => reminders = {}
            /\ (has_start \/ has_end) =>
                /\ Cardinality(reminders) = 1
                /\ \A i \in reminders :
                    LET range == frags[i]["reminder"]
                    IN  /\ DOMAIN frags[i] = {"reminder"}
                        /\ DOMAIN range = (IF has_start THEN {"$gte"} ELSE {})
                                          \cup (IF has_end THEN {"$lte"} ELSE {})
                        /\ has_start => range["$gte"] = Hyphenated(args.reminder_start.v)
                        /\ has_end => range["$lte"] = Hyphenated(args.reminder_end.v)

\* both bounds and nothing else: the range is the bare filter
C14_Witness ==
    /\ tool = "search_companies"
    /\ requests # <<>>
    /\ ActiveKeys(args) = {"reminder"}
    /\ ~IsNone(args.reminder_start)
    /\ ~IsNone(args.reminder_end)
    /\ args.reminder_start # args.reminder_end
    /\ DOMAIN requests[1].json["filter"] = {"reminder"}
    /\ DOMAIN requests[1].json["filter"]["reminder"] = {"$gte", "$lte"}

(***************************************************************************)
(* search_people.                                                          *)
(***************************************************************************)
NamePredicate == "name" :> ("$contains" :> args.query.v)
EmailPredicate == "email_addresses" :> ("email_address" :> ("$eq" :> args.email.v))

\* C15: search_people POSTs to /objects/people/records/query a payload with
\* the caller's limit and, as filter, the bare name predicate for a name
\* alone, the bare email predicate for an email alone, {"$and": [name
\* predicate, email predicate]} for both, and no filter for neither.
C15_PeopleFilter ==
    (tool = "search_people" /\ requests # <<>>) =>
        LET payload == requests[1].json
            by_name == Truthy(args.query)
            by_email == Truthy(args.email)
        IN  /\ Len(requests) = 1
            /\ requests[1].method = "POST"
            /\ requests[1].url = <<"/objects/people/records/query">>
            /\ payload["limit"] = args.limit
            /\ (~by_name /\ ~by_email) => DOMAIN payload = {"limit"}
            /\ (by_name \/ by_email) => DOMAIN payload = {"limit", "filter"}
            /\ (by_name /\ ~by_email) => payload["filter"] = NamePredicate
            /\ (~by_name /\ by_email) => payload["filter"] = EmailPredicate
            /\ (by_name /\ by_email) =>
                payload["filter"] = ("$and" :> <<NamePredicate, EmailPredicate>>)

C15_Witness ==
    /\ tool = "search_people"
    /\ requests # <<>>
    /\ Truthy(args.query)
    /\ Truthy(args.email)
    /\ args.limit = DefaultPeopleLimit
    /\ DOMAIN requests[1].json["filter"] = {"$and"}
    /\ DOMAIN requests[1].json["filter"]["$and"][2] = {"email_addresses"}

(***************************************************************************)
(* Failures that are not HTTP status errors; requests per call.            *)
(***************************************************************************)
\* the remote answered 2xx with a body that is not JSON
DecodeFailure ==
    /\ response.kind = "http"
    /\ is_success(response.status)
    /\ json(response).kind = "raise"

\* C16: a connection failure, a timeout or a decode failure reaches the
\* caller of the client operation as the very error that was raised: it is
\* not the generic API error and no value is returned in its place.
C16_TransportErrorsUnchanged ==
    pc = "done" =>
        /\ response.kind = "transport" =>
            /\ client_result = Raise(response.exc)
            /\ client_result.exc.type \in {"ConnectError", "ReadTimeout"}
        /\ DecodeFailure =>
            /\ client_result = json(response)
            /\ client_result.exc.type = "JSONDecodeError"
        /\ (response.kind = "transport" \/ DecodeFailure) =>
            client_result.exc.msg[1] # "Attio API error: "

C16_Witness ==
    /\ pc = "done"
    /\ tool = "search_companies"
    /\ response.kind = "transport"
    /\ client_result.kind = "raise"
    /\ client_result.exc.type = "ReadTimeout"

MemberListTools == {"list_workspace_members", "search_workspace_member_by_email"}

\* C17: nothing is retried: from its call to its end, on the success path
\* and on every failure path, a tool invocation has issued at most one
\* request, exactly one once it waits for or has had the remote's answer,
\* and the member listing is one GET /workspace_members with no paging
\* parameters.
C17_AtMostOneRequest ==
    /\ Len(requests) <= 1
    /\ pc = "awaiting" => Len(requests) = 1
    /\ response # NoResponse => Len(requests) = 1
    /\ (tool \in MemberListTools /\ pc \in {"awaiting", "done"}) =>
        requests = <<[method |-> "GET", url |-> <<"/workspace_members">>]>>

\* a listing that failed in transport and was not asked again
C17_Witness ==
    /\ pc = "done"
    /\ tool = "list_workspace_members"
    /\ response.kind = "transport"
    /\ Len(requests) = 1
    /\ tool_result.value.head = "Error: "

(***************************************************************************)
(* BearerTokenVerifier.                                                    *)
(***************************************************************************)
Verified == pc = "done" /\ tool = "verify_token"

\* a token is configured: MCP_BEARER_TOKEN is set to a non-empty string,
\* the condition that the verifier ("if not expected_token") and the
\* server's start-up ("if settings.mcp_bearer_token") both evaluate
TokenConfigured == IsStr(mcp_bearer_token) /\ mcp_bearer_token.v # <<>>

\* C18: with a token configured, verify_token returns an access token for
\* the presented token (client_id "attio-mcp-client", scopes ["*"], no
\* expiry) exactly when the presented token is the configured one, and None
\* for every other presented token, the empty string included.
C18_OnlyTheConfiguredToken ==
    (Verified /\ TokenConfigured) =>
        LET result == client_result.value
        IN  /\ args.token.v = mcp_bearer_token.v =>
                /\ ~IsNone(result)
                /\ result.token = args.token
                /\ result.client_id = "attio-mcp-client"
                /\ result.scopes = <<"*">>
                /\ IsNone(result.expires_at)
            /\ args.token.v # mcp_bearer_token.v => IsNone(result)

\* a token that the configured one starts with is rejected
C18_Witness ==
    /\ Verified
    /\ TokenConfigured
    /\ Len(args.token.v) = 1
    /\ Len(mcp_bearer_token.v) = 2
    /\ args.token.v[1] = mcp_bearer_token.v[1]
    /\ IsNone(client_result.value)

\* C19: with no token configured (MCP_BEARER_TOKEN unset or empty),
\* verify_token accepts every presented token: it returns an access token
\* for it with client_id "anonymous" and scopes ["*"], never None.
C19_AnonymousWhenUnconfigured ==
    (Verified /\ ~TokenConfigured) =>
        LET result == client_result.value
        IN  /\ ~IsNone(result)
            /\ result.token = args.token
            /\ result.client_id = "anonymous"
            /\ result.scopes = <<"*">>

C19_Witness ==
    /\ Verified
    /\ IsNone(mcp_bearer_token)
    /\ Len(args.token.v) = MaxTokenLen
    /\ client_result.value.client_id = "anonymous"

(***************************************************************************)
(* search_workspace_member_by_email.                                       *)
(***************************************************************************)
SearchedByEmail ==
    /\ pc = "done"
    /\ tool = "search_workspace_member_by_email"
    /\ client_result.kind = "return"

\* the member has an email address and it is the requested one, ignoring case
HasEmail(member, email) ==
    /\ "email_address" \in DOMAIN member
    /\ IsStr(member["email_address"])
    /\ lower(member["email_address"].v) = lower(email)

EmailPositions == {i \in 1..Len(Fetched) : HasEmail(Fetched[i], args.email)}

\* C20: search_workspace_member_by_email returns {"data": member} for the
\* first fetched member whose email address is the requested one ignoring
\* case (the whole address, not a part of it), and a JSON object whose
\* "error" says "No workspace member found ..." when there is no such
\* member.
C20_FirstMemberWithEmail ==
    SearchedByEmail =>
        /\ tool_result.value.head = "{"
        /\ EmailPositions # {} =>
            \E i \in EmailPositions :
                /\ \A j \in EmailPositions : i <= j
                /\ tool_result.value.json = ("data" :> Fetched[i])
        /\ EmailPositions = {} =>
            /\ DOMAIN tool_result.value.json = {"error"}
            /\ tool_result.value.json["error"][1] = "No workspace member found with email: "
            /\ tool_result.value.json["error"][2] = args.email

OwnBeginning(i) == ToolRequest(calls[i].tool, calls[i].args, python311)

\* C22: however concurrent invocations interleave, the shared client keeps
\* the base URL and the headers it was built with, and each invocation is a
\* function of its own arguments and of the answer to its own request: its
\* request is the one its arguments alone determine, sent with the client's
\* original base URL and headers, and its outcome and text are the ones its
\* arguments and its own response alone determine.
C22_NoSharedState ==
    /\ client = NewClient
    /\ \A i \in Invocations :
        calls[i].pc # "idle" =>
            /\ OwnBeginning(i).kind = "raise" =>
                /\ calls[i].sent = <<>>
                /\ calls[i].client_result = OwnBeginning(i)
            /\ OwnBeginning(i).kind = "return" =>
                /\ calls[i].sent = <<[base_url |-> NewClient.base_url,
                                      headers |-> NewClient.headers,
                                      request |-> OwnBeginning(i).value]>>
                /\ calls[i].pc = "done" =>
                    calls[i].client_result
                        = ClientResult(calls[i].tool, calls[i].args, calls[i].response)
            /\ calls[i].pc = "done" =>
                calls[i].tool_result
                    = ToolText(calls[i].tool, calls[i].args, calls[i].client_result)

\* two invocations of the same tool overlap and end differently
C22_Witness ==
    /\ calls[1].pc = "done"
    /\ calls[2].pc = "done"
    /\ calls[1].tool = "get_company_notes"
    /\ calls[2].tool = "get_company_notes"
    /\ calls[1].sent = calls[2].sent
    /\ calls[1].response.kind = "transport"
    /\ calls[2].response.kind = "http"
    /\ calls[1].tool_result.value.head = "Error: "
    /\ calls[2].tool_result.value.head = "{"

(***************************************************************************)
(* search_companies: empty strings, the date range, invalid dates.         *)
(***************************************************************************)
EmptyStr(x) == IsStr(x) /\ x.v = <<>>

\* the argument with an empty string taken as not given
Omit(x) == IF EmptyStr(x) THEN None ELSE x

\* what search_companies does before its request when the criteria given as
\* empty strings are omitted instead
WithEmptyOmitted ==
    search_companies_request(Omit(args.name), Omit(args.domain), Omit(args.owner_id),
                             Omit(args.reminder_start), Omit(args.reminder_end),
                             args.limit, python311)

\* C23: a search_companies criterion passed as the empty string has the
\* effect of the criterion left out: the call sends the payload it would
\* send without it and raises nothing that it would not raise without it.
C23_EmptyStringIsOmitted ==
    (tool = "search_companies" /\ pc # "idle") =>
        /\ WithEmptyOmitted.kind = "return" => requests = <<WithEmptyOmitted.value>>
        /\ WithEmptyOmitted.kind = "raise" =>
            /\ requests = <<>>
            /\ client_result = WithEmptyOmitted

\* the bound is not given or is a date
BoundReadable(s) == IsNone(s) \/ IsDate(s)

\* the reminder predicate of the request, or <<>> when it has none
ReminderRange ==
    LET frags == Fragments(requests[1].json)
        at == {i \in 1..Len(frags) : "reminder" \in DOMAIN frags[i]}
    IN  IF at = {} THEN <<>> ELSE frags[CHOOSE i \in at : TRUE]["reminder"]

\* C24: the range validation of search_companies rejects a call only when
\* reminder_start is strictly after reminder_end.  With bounds that are
\* dates, a call whose start equals its end, or is before it, or that has
\* one bound only, issues exactly one request whose reminder predicate
\* carries each given bound (written YYYY-MM-DD); and the range error is
\* raised for no other call.
C24_OnlyStrictlyReversedRejected ==
    (tool = "search_companies" /\ pc # "idle") =>
        /\ (/\ BoundReadable(args.reminder_start)
            /\ BoundReadable(args.reminder_end)
            /\ ~ReversedRange(args)) =>
                /\ Len(requests) = 1
                /\ ~IsNone(args.reminder_start) =>
                    /\ "$gte" \in DOMAIN ReminderRange
                    /\ ReminderRange["$gte"] = Hyphenated(args.reminder_start.v)
                /\ ~IsNone(args.reminder_end) =>
                    /\ "$lte" \in DOMAIN ReminderRange
                    /\ ReminderRange["$lte"] = Hyphenated(args.reminder_end.v)
        /\ (/\ pc = "done"
            /\ client_result.kind = "raise"
            /\ client_result.exc.msg = <<"reminder_start must be <= reminder_end">>) =>
                ReversedRange(args)

\* a range of one day
C24_Witness ==
    /\ tool = "search_companies"
    /\ pc = "awaiting"
    /\ IsDate(args.reminder_start)
    /\ args.reminder_end = args.reminder_start
    /\ Len(requests) = 1
    /\ ReminderRange["$gte"] = ReminderRange["$lte"]
    /\ ReminderRange["$gte"] = args.reminder_start.v

\* the ISO calendar dates among the bounds a caller passes, in the extended
\* and in the basic form
IsoDates ==
    {<<"2", "0", "2", "4", "-", "0", "1", "-", "0", "1">>,
     <<"2", "0", "2", "4", "-", "1", "2", "-", "3", "1">>,
     <<"2", "0", "2", "4", "0", "6", "1", "5">>}

NotADate(s) == IsStr(s) /\ s.v \notin IsoDates

\* C25: a reminder bound that is a string but no ISO calendar date (empty,
\* a day the month does not have, months or days not of two digits) makes
\* search_companies raise ValueError with no request issued, whatever the
\* other arguments are.
C25_InvalidDateRejected ==
    (/\ tool = "search_companies"
     /\ pc # "idle"
     /\ NotADate(args.reminder_start) \/ NotADate(args.reminder_end)) =>
        /\ pc = "done"
        /\ requests = <<>>
        /\ response = NoResponse
        /\ client_result.kind = "raise"
        /\ client_result.exc.type = "ValueError"

\* 30 February as upper bound, with the other criteria all given
C25_Witness ==
    /\ tool = "search_companies"
    /\ pc = "done"
    /\ Truthy(args.name)
    /\ Truthy(args.domain)
    /\ Truthy(args.owner_id)
    /\ IsDate(args.reminder_start)
    /\ args.reminder_end = PyStr(<<"2", "0", "2", "4", "-", "0", "2", "-", "3", "0">>)
    /\ requests = <<>>
    /\ client_result.exc.type = "ValueError"

(***************************************************************************)
(* 404 by endpoint.                                                        *)
(***************************************************************************)
\* tools whose endpoint has no special case for 404
PlainTools ==
    {"search_companies", "search_people", "list_workspace_members",
     "search_workspace_member_by_email"}

\* C26: a 404 on the company query, the people query or the member listing
\* is neither an empty result nor a "not found" error: the client raises the
\* generic API error with the status 404 and the response body.
C26_PlainNotFoundIsApiError ==
    (tool \in PlainTools /\ Answered(404)) =>
        /\ client_result.kind = "raise"
        /\ client_result.exc
            = Exception("Exception", <<"Attio API error: ", "404", " - ", response.text>>)

C26_Witness ==
    /\ tool = "list_workspace_members"
    /\ Answered(404)
    /\ response.text = <<"o", "o", "p", "s">>
    /\ client_result.kind = "raise"
    /\ client_result.exc.msg[2] = "404"
    /\ tool_result.value.head = "Error: "

\* C27: whenever a fetched member has the requested email address ignoring
\* case, search_workspace_member_by_email returns such a member, whatever
\* members (with a null or missing email address included) precede it.
C27_MatchReturnedWhateverPrecedes ==
    (SearchedByEmail /\ EmailPositions # {}) =>
        /\ tool_result.value.head = "{"
        /\ \E i \in EmailPositions : tool_result.value.json = ("data" :> Fetched[i])

\* the same on collections in which every member before the first match
\* has an email address that is a string
EmailsBeforeMatchAreStrings ==
    \A i \in EmailPositions :
        \A j \in 1..(i - 1) :
            "email_address" \in DOMAIN Fetched[j] => IsStr(Fetched[j]["email_address"])

C27_MatchReturnedAfterStrings ==
    (SearchedByEmail /\ EmailPositions # {} /\ EmailsBeforeMatchAreStrings) =>
        /\ tool_result.value.head = "{"
        /\ \E i \in EmailPositions : tool_result.value.json = ("data" :> Fetched[i])

\* a returned member has no null field
NoNullField(member) ==
    \A key \in DOMAIN member \cap {"first_name", "last_name", "email_address"} :
        ~IsNone(member[key])

\* C28: in list_workspace_members a needle is matched against actual field
\* values only: every member that a non-empty needle retains has the needle
\* in its first name, last name, trimmed "first last" or email address, a
\* null or absent field counting as no text.
C28_NullFieldsNeverMatch ==
    (ListedMembers /\ Truthy(args.contains) /\ tool_result.value.head = "{") =>
        \A i \in 1..Len(Returned) : NeedleInFields(Returned[i], args.contains)

\* the same for the retained members none of whose fields is null
C28_AbsentFieldsNeverMatch ==
    (ListedMembers /\ Truthy(args.contains) /\ tool_result.value.head = "{") =>
        \A i \in 1..Len(Returned) :
            NoNullField(Returned[i]) => NeedleInFields(Returned[i], args.contains)

\* C29: through the tool, a remote 404 gives two different texts: the notes
\* tools return the JSON text of {"data": []}, which does not start with
\* "Error: "; the detail tools return a text that starts with "Error: " and
\* carries the entity's "not found" message and the requested id.
C29_NotFoundTexts ==
    /\ (tool \in NotesTools /\ Answered(404)) =>
        /\ tool_result.kind = "return"
        /\ tool_result.value = [head |-> "{", json |-> "data" :> <<>>]
    /\ (tool \in DetailTools /\ Answered(404)) =>
        /\ tool_result.kind = "return"
        /\ tool_result.value = [head |-> "Error: ", msg |-> <<NotFoundText[tool], RequestedId>>]

C29_Witness ==
    /\ tool = "get_person_details"
    /\ Answered(404)
    /\ args.person_id = <<"r", "2">>
    /\ tool_result.value.head = "Error: "
    /\ tool_result.value.msg = <<"Person not found: ", <<"r", "2">>>>

(***************************************************************************)
(* The empty bearer token.                                                 *)
(***************************************************************************)
\* the server was built with a token verifier
AuthenticationEnabled == mcp.token_verifier # "none"

\* the verifier turns some presented token down
SomeTokenRejected ==
    \E token \in PresentedTokens : IsNone(verify_token(token, mcp_bearer_token))

\* C30: a bearer token configured as the empty string is treated like no
\* token: the server is built without authentication and verify_token
\* accepts every presented token as "anonymous"; the server has
\* authentication enabled exactly when the verifier would reject some token.
C30_EmptyTokenIsNoToken ==
    /\ mcp_bearer_token = PyStr(<<>>) => ~AuthenticationEnabled
    /\ (Verified /\ mcp_bearer_token = PyStr(<<>>)) =>
        /\ ~IsNone(client_result.value)
        /\ client_result.value.token = args.token
        /\ client_result.value.client_id = "anonymous"
    /\ AuthenticationEnabled <=> SomeTokenRejected
    /\ (Verified /\ IsNone(client_result.value)) => AuthenticationEnabled

C30_Witness ==
    /\ Verified
    /\ mcp_bearer_token = PyStr(<<>>)
    /\ ~AuthenticationEnabled
    /\ args.token.v # <<>>
    /\ client_result.value.client_id = "anonymous"

====
